---- MODULE Spec2Model ----
(***************************************************************************)
(* Workflow/task orchestration engine of agentic-builder:                  *)
(*   storage/tasks.py, storage/workflows.py  (records and queries)         *)
(*   orchestration/stage_executor.py         (execute_stage, execute_task) *)
(*   agents/executor.py                      (execute_agent)               *)
(*   orchestration/engine.py                 (WorkflowEngine)              *)
(***************************************************************************)
EXTENDS Integers, Sequences, FiniteSets, TLC

\* ------------------------------------------------------------------ bounds
\* Number of task rows the tasks table can hold in the model.
MaxTasks == 3
\* Number of engine invocations (create_and_execute, execute, resume) in a run
\* of the model; each one uses one call slot.
MaxCalls == 2
\* Number of runs create_and_execute creates.
MaxRuns == 1
\* Number of task rows while the engine runs (the seed task and the tasks
\* added to the stages of the run).
EngineTasks == 2
\* Largest token count (input plus output) of one response of the CLI.
MaxTokens == 1
\* Number of on_event registrations where the registry itself is modelled.
MaxHandlers == 3

Runs == {"w1", "w2"}
TaskIds == 1..MaxTasks
Calls == 1..MaxCalls
TokenCounts == 1..MaxTokens

\* ------------------------------------------------------- enums (constants.py)
WorkflowStatus == {"pending", "running", "paused", "completed", "failed", "cancelled"}
TaskStatus == {"pending", "assigned", "running", "completed", "failed", "blocked"}
StageStatus == {"pending", "running", "completed", "failed", "skipped"}

\* The registered templates, as their stages in template order (two of the
\* four templates of WORKFLOWS: one purely sequential, one with a parallel
\* stage).
StageDefinition(name, agent_types, parallel) ==
    [name |-> name, agent_types |-> agent_types, parallel |-> parallel]

WORKFLOWS ==
    [security_audit |->
        <<StageDefinition("analysis", <<"RESEARCH">>, FALSE),
          StageDefinition("security_review", <<"SR">>, FALSE),
          StageDefinition("quality_review", <<"CQR">>, FALSE)>>,
     fix_bug |->
        <<StageDefinition("analysis", <<"RESEARCH">>, FALSE),
          StageDefinition("solution", <<"ARCH">>, FALSE),
          StageDefinition("implementation", <<"DEV_PYTHON">>, FALSE),
          StageDefinition("verification", <<"QE", "E2E">>, TRUE)>>]

\* The workflow types callers pass: a registered one and one that is not.
WorkflowTypes == {"fix_bug", "no_such_type"}

\* get_workflow with a default template for types that are not registered.
get_workflow_def_default(workflow_type) ==
    IF workflow_type \in DOMAIN WORKFLOWS THEN WORKFLOWS[workflow_type] ELSE WORKFLOWS.fix_bug

\* get_workflow(workflow_type): the template, or <<>> for None.
get_workflow_def(workflow_type) ==
    IF workflow_type \in DOMAIN WORKFLOWS THEN WORKFLOWS[workflow_type] ELSE <<>>

\* ---------------------------------------------------------------- variables
VARIABLES
    wfStatus,    \* workflow_runs.status per run id; "none": no such row
    wfError,     \* workflow_runs.error_message, abstracted to its origin
    stages,      \* workflow_stages of a run, ordered by stage_order: status, parallel
    taskStatus,  \* tasks.status per task id; "none": no such row
    taskWf,      \* tasks.workflow_run_id
    taskStage,   \* tasks.stage_id as the stage's position in its run; 0: NULL
    taskAgent,   \* tasks.agent_type
    tokenUsage,  \* token_usage: per run, the sum of total_tokens over its rows
    usage,       \* token_usage: the rows record_usage inserts when called on its own
    wfTokens,    \* workflow_runs.total_tokens_used
    handlers,    \* WorkflowEngine._event_handlers: per event, the list of handlers
    deps,        \* task_dependencies: pairs <<task_id, depends_on_task_id>>
    calls,       \* one record per engine invocation: its position and locals
    log,         \* per invocation: the storage writes, events and dispatches it made
    runnable,    \* the result of the last get_runnable_tasks call
    fn           \* the last call of a function of the context package: name, arguments, result

vars == <<wfStatus, wfError, stages, taskStatus, taskWf, taskStage, taskAgent, deps,
          tokenUsage, usage, wfTokens, handlers, calls, log, runnable, fn>>

\* No function of the context package was called.
NoCall == [name |-> "none", args |-> <<>>, ret |-> <<>>, done |-> FALSE]

storageVars == <<wfStatus, wfError, stages, taskStatus, taskWf, taskStage, taskAgent, deps,
                 tokenUsage, usage, wfTokens>>

\* -------------------------------------------------------------- storage/tasks
NoQuery == [wf |-> "none", ids |-> {}]

TaskExists(t) == taskStatus[t] # "none"

ExistingTasks == {t \in TaskIds : TaskExists(t)}

\* The id of the next inserted row: ids are handed out in creation order, so
\* ORDER BY created_at is the order of the ids.
NextTaskId == CHOOSE t \in TaskIds : ~TaskExists(t) /\ \A u \in TaskIds : u < t => TaskExists(u)

\* get_runnable_tasks with the join on the dependency's status compared to
\* another status than 'completed'.
get_runnable_tasks_failed_only(workflow_run_id) ==
    {t \in ExistingTasks :
        /\ taskWf[t] = workflow_run_id
        /\ taskStatus[t] = "pending"
        /\ ~ \E td \in deps : \E dt \in ExistingTasks :
                td[2] = dt /\ td[1] = t /\ taskStatus[dt] = "failed"}

\* get_runnable_tasks: SELECT t.* FROM tasks t WHERE workflow_run_id = ? AND
\* status = 'pending' AND NOT EXISTS (SELECT 1 FROM task_dependencies td JOIN
\* tasks dt ON td.depends_on_task_id = dt.id WHERE td.task_id = t.id AND
\* dt.status != 'completed').
get_runnable_tasks(workflow_run_id) ==
    {t \in ExistingTasks :
        /\ taskWf[t] = workflow_run_id
        /\ taskStatus[t] = "pending"
        /\ ~ \E td \in deps : \E dt \in ExistingTasks :
                td[2] = dt /\ td[1] = t /\ taskStatus[dt] # "completed"}

\* get_task_dependencies: SELECT depends_on_task_id ... WHERE task_id = ?
get_task_dependencies(task_id) == {td[2] : td \in {e \in deps : e[1] = task_id}}

\* get_stage_tasks(stage_id, status): the rows of the stage with that status.
get_stage_tasks(w, s, status) ==
    {t \in ExistingTasks : taskWf[t] = w /\ taskStage[t] = s /\ taskStatus[t] = status}

\* A set of task ids as the list ORDER BY created_at returns.
RECURSIVE OrderByCreated(_)
OrderByCreated(S) ==
    IF S = {} THEN <<>>
    ELSE LET m == CHOOSE x \in S : \A y \in S : x <= y
         IN <<m>> \o OrderByCreated(S \ {m})

\* create_task: INSERT INTO tasks ... status 'pending' (the id is new; the
\* workflow row must exist: foreign key).
create_task(w, s, agent_type) ==
    /\ wfStatus[w] # "none"
    /\ s \in 0..Len(stages[w])
    /\ \E t \in TaskIds : ~TaskExists(t)
    /\ taskStatus' = [taskStatus EXCEPT ![NextTaskId] = "pending"]
    /\ taskWf' = [taskWf EXCEPT ![NextTaskId] = w]
    /\ taskStage' = [taskStage EXCEPT ![NextTaskId] = s]
    /\ taskAgent' = [taskAgent EXCEPT ![NextTaskId] = agent_type]
    /\ runnable' = NoQuery
    /\ UNCHANGED <<wfStatus, wfError, stages, deps, calls, log, tokenUsage, usage, wfTokens, handlers, fn>>

\* add_task_dependency: INSERT OR IGNORE INTO task_dependencies; both rows must
\* exist (foreign keys). Callers make a task depend on tasks created before it.
add_task_dependency(task_id, depends_on_task_id) ==
    /\ TaskExists(task_id) /\ TaskExists(depends_on_task_id)
    /\ depends_on_task_id < task_id
    /\ deps' = deps \cup {<<task_id, depends_on_task_id>>}
    /\ runnable' = NoQuery
    /\ UNCHANGED <<wfStatus, wfError, stages, taskStatus, taskWf, taskStage, taskAgent, calls,
                   log, tokenUsage, usage, wfTokens, handlers, fn>>

\* update_task_status: UPDATE tasks SET status = ? WHERE id = ?
update_task_status(task_id, status) ==
    /\ TaskExists(task_id)
    /\ status \in TaskStatus
    /\ taskStatus' = [taskStatus EXCEPT ![task_id] = status]
    /\ runnable' = NoQuery
    /\ UNCHANGED <<wfStatus, wfError, stages, taskWf, taskStage, taskAgent, deps, calls, log,
                   tokenUsage, usage, wfTokens, handlers, fn>>

\* A caller runs get_runnable_tasks and keeps the rows it returned.
CallGetRunnable(w) ==
    /\ runnable' = [wf |-> w, ids |-> get_runnable_tasks(w)]
    /\ UNCHANGED <<storageVars, calls, log, handlers, fn>>

\* ------------------------------------------------------------ call records
NoRes == [t \in TaskIds |-> "none"]

IdleCall ==
    [pc |-> "idle", op |-> "none", wf |-> "none", snap |-> <<>>, idx |-> 0,
     par |-> FALSE,
     sel |-> <<>>, res |-> NoRes, result |-> "none", err |-> "none", event |-> "none",
     pauseAt |-> 0,
     cancelAt |-> 0]

\* ------------------------------------------------------- storage/workflows
\* update_workflow_status: UPDATE workflow_runs SET status = ? WHERE id = ?
\* (no row, no change).
update_workflow_status(w, status) ==
    IF wfStatus[w] = "none" THEN wfStatus ELSE [wfStatus EXCEPT ![w] = status]

\* update_workflow_status writes error_message only in its third branch
\* (elif error_message:): when the status is neither RUNNING nor COMPLETED and
\* the message is neither None nor the empty string. msgs is the column before.
update_workflow_error(msgs, w, status, error_message) ==
    IF wfStatus[w] # "none" /\ status \notin {"running", "completed"}
       /\ error_message \notin {"none", ""}
    THEN [msgs EXCEPT ![w] = error_message]
    ELSE msgs

\* update_stage_status: UPDATE workflow_stages SET status = ? WHERE id = ?
update_stage_status(w, i, status) ==
    [stages EXCEPT ![w] = [@ EXCEPT ![i] = [@ EXCEPT !.status = status]]]

\* get_workflow_stages: the rows ORDER BY stage_order, as read at that moment.
get_workflow_stages(w) == [i \in 1..Len(stages[w]) |-> stages[w][i].status]

\* create_stages numbering the stages from the end of the template.
create_stages_reversed(workflow_def) ==
    [i \in 1..Len(workflow_def) |->
        [status |-> "pending", parallel |-> workflow_def[Len(workflow_def) + 1 - i].parallel,
         name |-> workflow_def[Len(workflow_def) + 1 - i].name]]

\* create_stage for every stage of a template, in template order.
create_stages(workflow_def) ==
    [i \in 1..Len(workflow_def) |->
        [status |-> "pending", parallel |-> workflow_def[i].parallel,
         name |-> workflow_def[i].name]]

\* generate_workflow_id returns an id no row has yet.
FreeRuns == {w \in Runs : wfStatus[w] = "none"}
NewRun == IF "w1" \in FreeRuns THEN "w1" ELSE "w2"

\* ------------------------------------------------------------- engine.py
E(k, v, i) == [k |-> k, v |-> v, i |-> i]

\* The events the engine emits.
EventNames ==
    {"workflow_started", "stage_started", "stage_completed", "stage_failed",
     "workflow_completed", "workflow_failed", "workflow_paused", "workflow_cancelled"}

\* What awaiting the handlers of an event can do: return, or raise.
EmitOutcome == {"ok", "raise"}

\* str(e) of an error: exceptions raised without arguments have the empty text.
ErrorTexts == {"", "error text"}

Ended(c) == calls[c].pc \in {"returned", "raised", "stage_done"}
Active(c) == calls[c].pc \notin {"idle", "returned", "raised", "stage_done", "dead"}

\* Call slots are used in order.
IsNextCall(c) == calls[c].pc = "idle" /\ \A b \in Calls : b < c => calls[b].pc # "idle"

\* execute, lines 179-190: the except branch marks the run failed with
\* error_message=str(e), emits workflow_failed and re-raises. msgs is the
\* error_message column as the try block left it.
engine_except(c, w, entries, msgs) ==
    \E text \in ErrorTexts :
        /\ wfStatus' = update_workflow_status(w, "failed")
        /\ wfError' = update_workflow_error(msgs, w, "failed", text)
        /\ log' = [log EXCEPT ![c] = @ \o entries \o
                        <<E("wf", "failed", 0), E("emit", "workflow_failed", 0)>>]
        /\ calls' = [calls EXCEPT ![c] = [@ EXCEPT !.pc = "raised", !.err = "exception"]]

\* execute, lines 107-112, for a run that exists: mark it running and emit
\* workflow_started (outside the try: a raising handler ends the call).
execute_entry(c, w, entries) ==
    /\ wfStatus' = [wfStatus EXCEPT ![w] = "running"]
    /\ \E r \in EmitOutcome :
        /\ log' = [log EXCEPT ![c] = entries \o
                        <<E("wf", "running", 0), E("emit", "workflow_started", 0)>> \o
                        (IF r = "raise" THEN <<E("raise", "workflow_started", 0)>> ELSE <<>>)]
        /\ calls' = [calls EXCEPT ![c] =
                        [IdleCall EXCEPT !.pc = IF r = "ok" THEN "loop" ELSE "raised",
                                         !.err = IF r = "ok" THEN "none" ELSE "exception",
                                         !.op = "engine", !.wf = w]]

call_rejected(c, w, op, err) ==
    /\ calls' = [calls EXCEPT ![c] = [IdleCall EXCEPT !.pc = "raised", !.op = op, !.wf = w, !.err = err]]
    /\ UNCHANGED <<storageVars, log, runnable, handlers, fn>>

\* WorkflowEngine.execute(workflow_id), lines 107-112.
execute(c, w) ==
    /\ IsNextCall(c)
    /\ IF wfStatus[w] = "none"
       THEN call_rejected(c, w, "execute", "WorkflowNotFound")
       ELSE /\ execute_entry(c, w, <<>>)
            /\ UNCHANGED <<wfError, stages, taskStatus, taskWf, taskStage, taskAgent, deps,
                           runnable, tokenUsage, usage, wfTokens, handlers, fn>>

\* resume without the status check of lines 214-220.
resume_unchecked(c, w) ==
    /\ IsNextCall(c)
    /\ IF wfStatus[w] = "none"
       THEN call_rejected(c, w, "resume", "WorkflowNotFound")
       ELSE /\ execute_entry(c, w, <<>>)
            /\ UNCHANGED <<wfError, stages, taskStatus, taskWf, taskStage, taskAgent, deps,
                           runnable, tokenUsage, usage, wfTokens, handlers, fn>>

\* WorkflowEngine.resume(workflow_id), lines 211-221.
resume(c, w) ==
    /\ IsNextCall(c)
    /\ IF wfStatus[w] = "none"
       THEN call_rejected(c, w, "resume", "WorkflowNotFound")
       ELSE IF wfStatus[w] \notin {"paused", "failed"}
       THEN call_rejected(c, w, "resume", "ValueError")
       ELSE /\ execute_entry(c, w, <<>>)
            /\ UNCHANGED <<wfError, stages, taskStatus, taskWf, taskStage, taskAgent, deps,
                           runnable, tokenUsage, usage, wfTokens, handlers, fn>>

\* WorkflowEngine.create_and_execute(workflow_type, description), lines 61-96:
\* the run, its stages and the seed task of the first stage, then execute.
create_and_execute(c, workflow_type) ==
    /\ IsNextCall(c)
    /\ IF get_workflow_def(workflow_type) = <<>>
       THEN call_rejected(c, "none", "create_and_execute", "WorkflowNotFound")
       ELSE /\ Cardinality(Runs \ FreeRuns) < MaxRuns
            /\ \E t \in TaskIds : ~TaskExists(t)
            /\ LET w == NewRun IN
                /\ stages' = [stages EXCEPT ![w] = create_stages(get_workflow_def(workflow_type))]
                /\ taskStatus' = [taskStatus EXCEPT ![NextTaskId] = "pending"]
                /\ taskWf' = [taskWf EXCEPT ![NextTaskId] = w]
                /\ taskStage' = [taskStage EXCEPT ![NextTaskId] = 1]
                /\ taskAgent' = [taskAgent EXCEPT ![NextTaskId] =
                                    get_workflow_def(workflow_type)[1].agent_types[1]]
                /\ execute_entry(c, w, <<E("wf", "pending", 0), E("seed", "pending", NextTaskId)>>)
                /\ UNCHANGED <<wfError, deps, runnable, tokenUsage, usage, wfTokens, handlers, fn>>

\* NextStageIn without the skip of lines 119-120.
NextStageIn_no_skip(snap, idx) == IF idx < Len(snap) THEN idx + 1 ELSE 0

\* The first stage after position idx that the call's snapshot does not show
\* completed (lines 117-120); 0 when there is none.
NextStageIn(snap, idx) ==
    IF \E j \in DOMAIN snap : j > idx /\ snap[j] # "completed"
    THEN CHOOSE j \in DOMAIN snap :
            /\ j > idx /\ snap[j] # "completed"
            /\ \A k \in DOMAIN snap : (k > idx /\ snap[k] # "completed") => j <= k
    ELSE 0

\* execute, lines 115-131 and 173-177: read the stages once, skip the completed
\* ones, mark the next one running and emit stage_started; with no stage left,
\* mark the run completed and emit workflow_completed.
execute_loop(c) ==
    /\ calls[c].pc = "loop"
    /\ LET w == calls[c].wf
           snap == IF calls[c].idx = 0 THEN get_workflow_stages(w) ELSE calls[c].snap
           j == NextStageIn(snap, calls[c].idx)
       IN /\ \E r \in EmitOutcome :
            IF j # 0
            THEN /\ stages' = update_stage_status(w, j, "running")
                 /\ IF r = "ok"
                    THEN /\ log' = [log EXCEPT ![c] = @ \o
                                <<E("stage", "running", j), E("emit", "stage_started", j)>>]
                         /\ calls' = [calls EXCEPT ![c] = [@ EXCEPT !.pc = "select", !.snap = snap,
                                        !.idx = j, !.par = stages[w][j].parallel]]
                         /\ UNCHANGED <<wfStatus, wfError>>
                    ELSE engine_except(c, w,
                                <<E("stage", "running", j), E("emit", "stage_started", j),
                                  E("raise", "stage_started", j)>>, wfError)
            ELSE /\ UNCHANGED stages
                 /\ IF r = "ok"
                    THEN /\ wfStatus' = update_workflow_status(w, "completed")
                         /\ log' = [log EXCEPT ![c] = @ \o
                                <<E("wf", "completed", 0), E("emit", "workflow_completed", 0)>>]
                         /\ calls' = [calls EXCEPT ![c] = [@ EXCEPT !.pc = "returned", !.snap = snap]]
                         /\ UNCHANGED wfError
                    ELSE engine_except(c, w,
                                <<E("wf", "completed", 0), E("emit", "workflow_completed", 0),
                                  E("raise", "workflow_completed", 0)>>, wfError)
    /\ UNCHANGED <<taskStatus, taskWf, taskStage, taskAgent, deps, runnable, tokenUsage, usage,
                   wfTokens, handlers, fn>>

\* ------------------------------------------------------ stage_executor.py
\* What the part of execute_task before the Task Executor (lines 79-109:
\* get_task_dependencies, get_task_output, build_task_context,
\* save_task_context) can do: complete, or raise.
ContextOutcome == {"ok", "raise"}

\* What the Task Executor does with a task (execute_agent, lines 44-117): a
\* response with success (whose output lists follow-on tasks, or none), a
\* response without success, or an exception of the CLI.
AgentOutcome == {"success", "success_next_tasks", "failure", "raise"}

\* execute_agent reads nothing of parsed.next_tasks (lines 88-111): where only
\* the engine's own steps matter, the two kinds of success are one.
EngineAgentOutcome == AgentOutcome \ {"success_next_tasks"}

\* select_stage_tasks with a fallback that is not filtered to the stage.
select_stage_tasks_unfiltered(w, s) ==
    IF get_stage_tasks(w, s, "pending") # {}
    THEN OrderByCreated(get_stage_tasks(w, s, "pending"))
    ELSE OrderByCreated(get_runnable_tasks(w))

\* execute_stage, lines 26-32: the pending tasks of the stage and, when there
\* are none, the runnable tasks of the workflow that belong to the stage.
select_stage_tasks(w, s) ==
    IF get_stage_tasks(w, s, "pending") # {}
    THEN OrderByCreated(get_stage_tasks(w, s, "pending"))
    ELSE OrderByCreated({t \in get_runnable_tasks(w) : taskStage[t] = s})

Range(f) == {f[i] : i \in DOMAIN f}

\* stage_result with a sequential stage going on after a task returned False.
stage_result_no_stop(par, sel, res) ==
    IF ~par /\ \E t \in Range(sel) : res[t] = "exc" THEN "exc"
    ELSE IF \E t \in Range(sel) : res[t] \in {"none", "started"} THEN "none"
    ELSE IF \A t \in Range(sel) : res[t] = "ok" THEN "true" ELSE "false"

\* The results execute_stage has got so far decide it (lines 44 and 47-51):
\* sequentially the first result that is not True, or all of them; in parallel
\* all of them, an exception counting as a failure.
stage_result(par, sel, res) ==
    IF par
    THEN IF \E t \in Range(sel) : res[t] \in {"none", "started"} THEN "none"
         ELSE IF \A t \in Range(sel) : res[t] = "ok" THEN "true" ELSE "false"
    ELSE IF \E t \in Range(sel) : res[t] = "exc" THEN "exc"
         ELSE IF \E t \in Range(sel) : res[t] = "fail" THEN "false"
         ELSE IF \A t \in Range(sel) : res[t] = "ok" THEN "true" ELSE "none"

\* The call's position once its results are res.
after_result(call, res) ==
    LET out == stage_result(call.par, call.sel, res)
    IN [call EXCEPT !.res = res, !.result = out,
                    !.pc = IF out = "none" THEN "tasks" ELSE "stage_end"]

\* execute_stage, lines 26-36: select the tasks; none: the stage is complete.
execute_stage_select(c) ==
    /\ calls[c].pc = "select"
    /\ LET sel == select_stage_tasks(calls[c].wf, calls[c].idx)
       IN /\ calls' = [calls EXCEPT ![c] =
                IF sel = <<>>
                THEN [@ EXCEPT !.pc = "stage_end", !.result = "true", !.sel = sel, !.res = NoRes]
                ELSE [@ EXCEPT !.pc = "tasks", !.result = "none", !.sel = sel, !.res = NoRes]]
          /\ log' = [log EXCEPT ![c] = Append(@, E("exec_stage", "", calls[c].idx))]
    /\ UNCHANGED <<storageVars, runnable, handlers, fn>>

\* The next task execute_stage starts: in parallel (line 41) the coroutines
\* start in list order; sequentially (lines 47-48) a task starts when the
\* await of the one before it is over.
NextToStart(call) ==
    LET n == Cardinality({k \in DOMAIN call.sel : call.res[call.sel[k]] # "none"})
    IN IF n < Len(call.sel) /\ (call.par \/ \A k \in 1..n : call.res[call.sel[k]] # "started")
       THEN call.sel[n + 1] ELSE 0

\* execute_task up to the await of the Task Executor: lines 63-109 build and
\* save the context (outside any try), then execute_agent line 42 marks the
\* task running.
execute_task_start(c) ==
    /\ calls[c].pc = "tasks"
    /\ NextToStart(calls[c]) # 0
    /\ LET t == NextToStart(calls[c]) IN
        \E x \in ContextOutcome :
            IF x = "ok"
            THEN /\ taskStatus' = [taskStatus EXCEPT ![t] = "running"]
                 /\ calls' = [calls EXCEPT ![c] = [@ EXCEPT !.res = [@ EXCEPT ![t] = "started"]]]
                 /\ log' = [log EXCEPT ![c] = Append(@, E("dispatch", "", t))]
            ELSE /\ UNCHANGED taskStatus
                 /\ calls' = [calls EXCEPT ![c] =
                        after_result(@, [calls[c].res EXCEPT ![t] = "exc"])]
                 /\ log' = [log EXCEPT ![c] = Append(@, E("raise", "context", t))]
    /\ UNCHANGED <<wfStatus, wfError, stages, taskWf, taskStage, taskAgent, deps, runnable,
                   tokenUsage, usage, wfTokens, handlers, fn>>

\* execute_agent, lines 74-86: a response of the CLI is recorded as one
\* token_usage row of the task's run; an exception of the CLI records nothing.
record_usage(w, o, n) ==
    IF o = "raise" THEN tokenUsage ELSE [tokenUsage EXCEPT ![w] = @ + n]

\* The status execute_agent leaves on the task (lines 104-117).
agent_status(o) == IF o \in {"success", "success_next_tasks"} THEN "completed" ELSE "failed"

\* What execute_task returns for an outcome of the Task Executor (lines
\* 112-121): response.success, or False for an exception.
execute_task_result(o) == IF o \in {"success", "success_next_tasks"} THEN "ok" ELSE "fail"

\* The Task Executor answers for a task: execute_agent lines 74-117 set the
\* task's status, execute_task lines 119-121 hand the boolean to execute_stage.
execute_task_finish(c, t, o) ==
    /\ calls[c].pc = "tasks"
    /\ calls[c].res[t] = "started"
    /\ o \in AgentOutcome
    /\ taskStatus' = [taskStatus EXCEPT ![t] = agent_status(o)]
    /\ calls' = [calls EXCEPT ![c] =
            after_result(@, [calls[c].res EXCEPT ![t] = execute_task_result(o)])]
    /\ log' = [log EXCEPT ![c] = Append(@, E("agent", o, t))]
    /\ \E n \in TokenCounts : tokenUsage' = record_usage(taskWf[t], o, n)
    /\ usage' = usage
    /\ UNCHANGED <<wfStatus, wfError, stages, taskWf, taskStage, taskAgent, deps, runnable,
                   wfTokens, handlers, fn>>

\* execute_stage returns (or raises) to a caller other than the engine.
execute_stage_return(c) ==
    /\ calls[c].pc = "stage_end"
    /\ calls[c].op = "execute_stage"
    /\ calls' = [calls EXCEPT ![c] = [@ EXCEPT !.pc = "stage_done"]]
    /\ UNCHANGED <<storageVars, log, runnable, handlers, fn>>

\* Line 171 with the return left out: the loop goes on to the next stage.
pc_after_failed_stage_continue == "loop"

\* execute, line 171: after a failed stage execute returns.
pc_after_failed_stage == "returned"

\* execute, lines 140-171: the stage succeeded: mark it completed and emit
\* stage_completed; it failed: mark it failed, emit stage_failed, mark the run
\* failed, emit workflow_failed and return; it raised: the except branch.
execute_stage_end(c) ==
    /\ calls[c].pc = "stage_end"
    /\ calls[c].op # "execute_stage"
    /\ LET w == calls[c].wf
           i == calls[c].idx
       IN \/ /\ calls[c].result = "true"
             /\ stages' = update_stage_status(w, i, "completed")
             /\ \E r \in EmitOutcome :
                IF r = "ok"
                THEN /\ log' = [log EXCEPT ![c] = @ \o
                            <<E("stage", "completed", i), E("emit", "stage_completed", i)>>]
                     /\ calls' = [calls EXCEPT ![c] = [@ EXCEPT !.pc = "loop"]]
                     /\ UNCHANGED <<wfStatus, wfError>>
                ELSE engine_except(c, w,
                            <<E("stage", "completed", i), E("emit", "stage_completed", i),
                              E("raise", "stage_completed", i)>>, wfError)
          \/ /\ calls[c].result = "false"
             /\ stages' = update_stage_status(w, i, "failed")
             /\ \E r \in {"ok", "raise_stage_failed", "raise_workflow_failed"} :
                IF r = "ok"
                THEN /\ wfStatus' = update_workflow_status(w, "failed")
                     /\ wfError' = update_workflow_error(wfError, w, "failed", "stage_failed")
                     /\ log' = [log EXCEPT ![c] = @ \o
                            <<E("stage", "failed", i), E("emit", "stage_failed", i),
                              E("wf", "failed", 0), E("emit", "workflow_failed", 0)>>]
                     /\ calls' = [calls EXCEPT ![c] = [@ EXCEPT !.pc = pc_after_failed_stage]]
                ELSE IF r = "raise_stage_failed"
                THEN engine_except(c, w,
                            <<E("stage", "failed", i), E("emit", "stage_failed", i),
                              E("raise", "stage_failed", i)>>, wfError)
                ELSE engine_except(c, w,
                            <<E("stage", "failed", i), E("emit", "stage_failed", i),
                              E("wf", "failed", 0), E("emit", "workflow_failed", 0),
                              E("raise", "workflow_failed", 0)>>,
                            update_workflow_error(wfError, w, "failed", "stage_failed"))
          \/ /\ calls[c].result = "exc"
             /\ UNCHANGED stages
             /\ engine_except(c, w, <<E("raise", "execute_stage", i)>>, wfError)
    /\ UNCHANGED <<taskStatus, taskWf, taskStage, taskAgent, deps, runnable, tokenUsage, usage,
                   wfTokens, handlers, fn>>

\* pause that also sets the running stages of the run back to pending.
pause_resetting_stages(w) ==
    /\ wfStatus' = update_workflow_status(w, "paused")
    /\ stages' = [stages EXCEPT ![w] =
                    [i \in DOMAIN @ |->
                        IF @[i].status = "running" THEN [@[i] EXCEPT !.status = "pending"]
                        ELSE @[i]]]
    /\ UNCHANGED <<wfError, taskStatus, taskWf, taskStage, taskAgent, deps, calls, log,
                   runnable, tokenUsage, usage, wfTokens, handlers, fn>>

\* WorkflowEngine.pause, lines 198-199.
pause(w) ==
    /\ wfStatus' = update_workflow_status(w, "paused")
    /\ UNCHANGED <<wfError, stages, taskStatus, taskWf, taskStage, taskAgent, deps, calls, log,
                   runnable, tokenUsage, usage, wfTokens, handlers, fn>>

\* WorkflowEngine.cancel, lines 229-230.
cancel(w) ==
    /\ wfStatus' = update_workflow_status(w, "cancelled")
    /\ UNCHANGED <<wfError, stages, taskStatus, taskWf, taskStage, taskAgent, deps, calls, log,
                   runnable, tokenUsage, usage, wfTokens, handlers, fn>>

\* cancel, with the executes of the run that are awaiting the Task Executor at
\* that moment noting how far their log was (cancelAt: a history field that no
\* action reads).
cancel_noted(w) ==
    /\ wfStatus' = update_workflow_status(w, "cancelled")
    /\ calls' = [c \in Calls |->
                    IF calls[c].wf = w /\ calls[c].pc = "tasks" /\ calls[c].op = "engine"
                       /\ calls[c].cancelAt = 0
                    THEN [calls[c] EXCEPT !.cancelAt = Len(log[c])]
                    ELSE calls[c]]
    /\ UNCHANGED <<wfError, stages, taskStatus, taskWf, taskStage, taskAgent, deps, log,
                   runnable, tokenUsage, usage, wfTokens, handlers, fn>>

\* pause, with the same note (pauseAt).
pause_noted(w) ==
    /\ wfStatus' = update_workflow_status(w, "paused")
    /\ calls' = [c \in Calls |->
                    IF calls[c].wf = w /\ calls[c].pc = "tasks" /\ calls[c].op = "engine"
                       /\ calls[c].pauseAt = 0
                    THEN [calls[c] EXCEPT !.pauseAt = Len(log[c])]
                    ELSE calls[c]]
    /\ UNCHANGED <<wfError, stages, taskStatus, taskWf, taskStage, taskAgent, deps, log,
                   runnable, tokenUsage, usage, wfTokens, handlers, fn>>

\* The process running an invocation dies while the invocation awaits the
\* Task Executor: the rows stay as they are.
process_dies(c) ==
    /\ calls[c].pc = "tasks" /\ calls[c].op = "engine"
    /\ calls' = [calls EXCEPT ![c] = [@ EXCEPT !.pc = "dead"]]
    /\ UNCHANGED <<storageVars, log, runnable, handlers, fn>>

\* ----------------------------------------------------- the engine (Spec)
Init ==
    /\ wfStatus = [w \in Runs |-> "none"]
    /\ wfError = [w \in Runs |-> "none"]
    /\ stages = [w \in Runs |-> <<>>]
    /\ taskStatus = [t \in TaskIds |-> "none"]
    /\ taskWf = [t \in TaskIds |-> "none"]
    /\ taskStage = [t \in TaskIds |-> 0]
    /\ taskAgent = [t \in TaskIds |-> "none"]
    /\ tokenUsage = [w \in Runs |-> 0]
    /\ usage = <<>>
    /\ wfTokens = [w \in Runs |-> 0]
    /\ handlers = [e \in EventNames |-> <<"h1">>]
    /\ fn = NoCall
    /\ deps = {}
    /\ calls = [c \in Calls |-> IdleCall]
    /\ log = [c \in Calls |-> <<>>]
    /\ runnable = NoQuery

Next ==
    \/ \E c \in Calls, ty \in WorkflowTypes : create_and_execute(c, ty)
    \/ \E c \in Calls, w \in Runs : execute(c, w)
    \/ \E c \in Calls, w \in Runs : resume(c, w)
    \/ \E w \in Runs : pause(w)
    \/ \E w \in Runs : cancel(w)
    \/ \E w \in Runs, s \in 1..Len(WORKFLOWS.fix_bug) :
            Cardinality(ExistingTasks) < EngineTasks /\ create_task(w, s, "DEV_PYTHON")
    \/ \E c \in Calls : execute_loop(c)
    \/ \E c \in Calls : execute_stage_select(c)
    \/ \E c \in Calls : execute_task_start(c)
    \/ \E c \in Calls, t \in TaskIds, o \in EngineAgentOutcome : execute_task_finish(c, t, o)
    \/ \E c \in Calls : execute_stage_end(c)

Spec == Init /\ [][Next]_vars

\* ------------------------- the engine, one invocation at a time (SpecSeq)
\* No invocation is in progress.
Quiet == \A c \in Calls : ~Active(c)

NextSeq ==
    \/ \E c \in Calls, ty \in WorkflowTypes : Quiet /\ create_and_execute(c, ty)
    \/ \E c \in Calls, w \in Runs : Quiet /\ execute(c, w)
    \/ \E c \in Calls, w \in Runs : Quiet /\ resume(c, w)
    \/ \E w \in Runs : pause(w)
    \/ \E w \in Runs : cancel(w)
    \/ \E w \in Runs, s \in 1..Len(WORKFLOWS.fix_bug) :
            Cardinality(ExistingTasks) < EngineTasks /\ create_task(w, s, "DEV_PYTHON")
    \/ \E c \in Calls : execute_loop(c)
    \/ \E c \in Calls : execute_stage_select(c)
    \/ \E c \in Calls : execute_task_start(c)
    \/ \E c \in Calls, t \in TaskIds, o \in EngineAgentOutcome : execute_task_finish(c, t, o)
    \/ \E c \in Calls : execute_stage_end(c)

SpecSeq == Init /\ [][NextSeq]_vars

\* ---- one invocation at a time, no task besides the seed task (SpecResume)
NextResume ==
    \/ \E c \in Calls, ty \in WorkflowTypes : Quiet /\ create_and_execute(c, ty)
    \/ \E c \in Calls, w \in Runs : Quiet /\ execute(c, w)
    \/ \E c \in Calls, w \in Runs : Quiet /\ resume(c, w)
    \/ \E w \in Runs : pause(w)
    \/ \E w \in Runs : cancel(w)
    \/ \E c \in Calls : execute_loop(c)
    \/ \E c \in Calls : execute_stage_select(c)
    \/ \E c \in Calls : execute_task_start(c)
    \/ \E c \in Calls, t \in TaskIds, o \in EngineAgentOutcome : execute_task_finish(c, t, o)
    \/ \E c \in Calls : execute_stage_end(c)

SpecResume == Init /\ [][NextResume]_vars

\* ------------- one invocation at a time, cancels noted (SpecCancel)
NextCancel ==
    \/ \E c \in Calls, ty \in WorkflowTypes : Quiet /\ create_and_execute(c, ty)
    \/ \E c \in Calls, w \in Runs : Quiet /\ execute(c, w)
    \/ \E c \in Calls, w \in Runs : Quiet /\ resume(c, w)
    \/ \E w \in Runs : pause(w)
    \/ \E w \in Runs : cancel_noted(w)
    \/ \E w \in Runs, s \in 1..Len(WORKFLOWS.fix_bug) :
            Cardinality(ExistingTasks) < EngineTasks /\ create_task(w, s, "DEV_PYTHON")
    \/ \E c \in Calls : execute_loop(c)
    \/ \E c \in Calls : execute_stage_select(c)
    \/ \E c \in Calls : execute_task_start(c)
    \/ \E c \in Calls, t \in TaskIds, o \in EngineAgentOutcome : execute_task_finish(c, t, o)
    \/ \E c \in Calls : execute_stage_end(c)

SpecCancel == Init /\ [][NextCancel]_vars

\* The steps of the invocations in progress.
EngineSteps ==
    \/ \E c \in Calls : execute_loop(c)
    \/ \E c \in Calls : execute_stage_select(c)
    \/ \E c \in Calls : execute_task_start(c)
    \/ \E c \in Calls, t \in TaskIds, o \in EngineAgentOutcome : execute_task_finish(c, t, o)
    \/ \E c \in Calls : execute_stage_end(c)

\* A task row is added to a stage of a run.
TaskAdded ==
    \E w \in Runs, s \in 1..Len(WORKFLOWS.fix_bug) :
        Cardinality(ExistingTasks) < EngineTasks /\ create_task(w, s, "DEV_PYTHON")

\* ------ one invocation at a time, every started step is taken (SpecLive)
\* The Task Executor and the handlers return and the event loop runs the
\* coroutine: a step of an invocation in progress is eventually taken.
SpecLive == Init /\ [][NextSeq]_vars /\ WF_vars(EngineSteps)

\* -------------- one invocation at a time, pauses noted (SpecPause)
NextPause ==
    \/ \E c \in Calls, ty \in WorkflowTypes : Quiet /\ create_and_execute(c, ty)
    \/ \E c \in Calls, w \in Runs : Quiet /\ execute(c, w)
    \/ \E c \in Calls, w \in Runs : Quiet /\ resume(c, w)
    \/ \E w \in Runs : pause_noted(w)
    \/ \E w \in Runs : cancel(w)
    \/ TaskAdded
    \/ EngineSteps

SpecPause == Init /\ [][NextPause]_vars

\* ----- one invocation at a time, the process may die mid-stage (SpecCrash)
NextCrash ==
    \/ \E c \in Calls, ty \in WorkflowTypes : Quiet /\ create_and_execute(c, ty)
    \/ \E c \in Calls, w \in Runs : Quiet /\ execute(c, w)
    \/ \E c \in Calls, w \in Runs : Quiet /\ resume(c, w)
    \/ \E c \in Calls : process_dies(c)
    \/ \E w \in Runs : pause(w)
    \/ \E w \in Runs : cancel(w)
    \/ TaskAdded
    \/ EngineSteps

SpecCrash == Init /\ [][NextCrash]_vars

\* ------------------------------------ the event registry (SpecEvents)
Handlers == {"h1", "h2"}

\* The events handlers are registered for and emitted here.
WatchedEvents == {"stage_started", "workflow_failed"}

\* on_event, lines 29-31: append the handler to the list of the event.
on_event(event, handler) ==
    /\ handlers' = [handlers EXCEPT ![event] = Append(@, handler)]
    /\ UNCHANGED <<storageVars, calls, log, runnable, fn>>

\* next_handler taking every second handler.
next_handler_skip(hs, idx) == IF idx + 1 < Len(hs) THEN idx + 2 ELSE 0

\* _emit, line 41: the for loop over the list of the event: the position after
\* idx, 0 when the list is exhausted.
next_handler(hs, idx) == IF idx < Len(hs) THEN idx + 1 ELSE 0

\* _emit(event, data), lines 40-41, up to the first handler.
emit(c, event) ==
    /\ IsNextCall(c)
    /\ calls' = [calls EXCEPT ![c] =
            [IdleCall EXCEPT !.op = "emit", !.event = event,
                             !.pc = IF next_handler(handlers[event], 0) = 0
                                    THEN "returned" ELSE "handlers"]]
    /\ UNCHANGED <<storageVars, handlers, fn, log, runnable>>

\* _emit, line 42: await handler(event, data); the handler returns or raises.
emit_handler(c) ==
    /\ calls[c].pc = "handlers"
    /\ LET hs == handlers[calls[c].event]
           p == next_handler(hs, calls[c].idx)
       IN \E r \in EmitOutcome :
            IF r = "ok"
            THEN /\ log' = [log EXCEPT ![c] = Append(@, E("handler", hs[p], p))]
                 /\ calls' = [calls EXCEPT ![c] =
                        [@ EXCEPT !.idx = p,
                                  !.pc = IF next_handler(hs, p) = 0
                                         THEN "returned" ELSE "handlers"]]
            ELSE /\ log' = [log EXCEPT ![c] = @ \o <<E("handler", hs[p], p),
                                                     E("raise", hs[p], p)>>]
                 /\ calls' = [calls EXCEPT ![c] =
                        [@ EXCEPT !.idx = p, !.pc = "raised", !.err = "exception"]]
    /\ UNCHANGED <<storageVars, handlers, fn, runnable>>

InitEvents ==
    /\ wfStatus = [w \in Runs |-> "none"]
    /\ wfError = [w \in Runs |-> "none"]
    /\ stages = [w \in Runs |-> <<>>]
    /\ taskStatus = [t \in TaskIds |-> "none"]
    /\ taskWf = [t \in TaskIds |-> "none"]
    /\ taskStage = [t \in TaskIds |-> 0]
    /\ taskAgent = [t \in TaskIds |-> "none"]
    /\ tokenUsage = [w \in Runs |-> 0]
    /\ usage = <<>>
    /\ wfTokens = [w \in Runs |-> 0]
    /\ handlers = [e \in EventNames |-> <<>>]
    /\ fn = NoCall
    /\ deps = {}
    /\ calls = [c \in Calls |-> IdleCall]
    /\ log = [c \in Calls |-> <<>>]
    /\ runnable = NoQuery

RECURSIVE SumLen(_, _)
SumLen(f, S) ==
    IF S = {} THEN 0
    ELSE LET e == CHOOSE x \in S : TRUE IN Len(f[e]) + SumLen(f, S \ {e})

NextEvents ==
    \/ \E e \in WatchedEvents, h \in Handlers :
            SumLen(handlers, EventNames) < MaxHandlers /\ on_event(e, h)
    \/ \E c \in Calls, e \in WatchedEvents : emit(c, e)
    \/ \E c \in Calls : emit_handler(c)

SpecEvents == InitEvents /\ [][NextEvents]_vars

\* ------- one invocation at a time, every registered template (SpecCreate)
NextCreate ==
    \/ \E c \in Calls, ty \in DOMAIN WORKFLOWS \cup {"no_such_type"} :
            Quiet /\ create_and_execute(c, ty)
    \/ \E c \in Calls, w \in Runs : Quiet /\ execute(c, w)
    \/ \E c \in Calls, w \in Runs : Quiet /\ resume(c, w)
    \/ \E w \in Runs : pause(w)
    \/ \E w \in Runs : cancel(w)
    \/ TaskAdded
    \/ EngineSteps

SpecCreate == Init /\ [][NextCreate]_vars

\* ------------------------------- execute_stage on its own (SpecStage)
\* The statuses the tasks of a stage are found in.
FoundStatus == {"pending", "running", "completed", "failed"}

\* One call of execute_stage(w1, stage 1, parallel) on a run with up to MaxTasks
\* tasks in its first two stages, in any of the found statuses, each task
\* depending or not on the task created before it.
InitStage ==
    /\ wfStatus = [w \in Runs |-> IF w = "w1" THEN "running" ELSE "none"]
    /\ wfError = [w \in Runs |-> "none"]
    /\ stages = [w \in Runs |->
                    IF w = "w1"
                    THEN [create_stages(WORKFLOWS.fix_bug) EXCEPT ![1] = [@ EXCEPT !.status = "running"]]
                    ELSE <<>>]
    /\ \E n \in 0..MaxTasks :
        /\ taskStatus \in [TaskIds -> FoundStatus \cup {"none"}]
        /\ \A t \in TaskIds : taskStatus[t] = "none" <=> t > n
        /\ taskWf = [t \in TaskIds |-> IF t <= n THEN "w1" ELSE "none"]
        /\ taskStage \in [TaskIds -> 0..2]
        /\ \A t \in TaskIds : taskStage[t] = 0 <=> t > n
        /\ taskAgent = [t \in TaskIds |-> IF t <= n THEN "DEV_PYTHON" ELSE "none"]
        /\ deps \in SUBSET {<<t, t - 1>> : t \in 2..n}
    /\ \E par \in BOOLEAN :
        calls = [c \in Calls |->
                    IF c = 1
                    THEN [IdleCall EXCEPT !.pc = "select", !.op = "execute_stage",
                                          !.wf = "w1", !.idx = 1, !.par = par]
                    ELSE IdleCall]
    /\ tokenUsage = [w \in Runs |-> 0]
    /\ usage = <<>>
    /\ wfTokens = [w \in Runs |-> 0]
    /\ handlers = [e \in EventNames |-> <<"h1">>]
    /\ fn = NoCall
    /\ log = [c \in Calls |-> <<>>]
    /\ runnable = NoQuery

NextStage ==
    \/ \E c \in Calls : execute_stage_select(c)
    \/ \E c \in Calls : execute_task_start(c)
    \/ \E c \in Calls, t \in TaskIds, o \in AgentOutcome : execute_task_finish(c, t, o)
    \/ \E c \in Calls : execute_stage_return(c)

SpecStage == InitStage /\ [][NextStage]_vars

\* ------------------------------------------- the task graph on its own (C1)
InitGraph ==
    /\ wfStatus = [w \in Runs |-> "pending"]
    /\ wfError = [w \in Runs |-> "none"]
    /\ stages = [w \in Runs |-> create_stages(WORKFLOWS.security_audit)]
    /\ taskStatus = [t \in TaskIds |-> "none"]
    /\ taskWf = [t \in TaskIds |-> "none"]
    /\ taskStage = [t \in TaskIds |-> 0]
    /\ taskAgent = [t \in TaskIds |-> "none"]
    /\ tokenUsage = [w \in Runs |-> 0]
    /\ usage = <<>>
    /\ wfTokens = [w \in Runs |-> 0]
    /\ handlers = [e \in EventNames |-> <<"h1">>]
    /\ fn = NoCall
    /\ deps = {}
    /\ calls = [c \in Calls |-> IdleCall]
    /\ log = [c \in Calls |-> <<>>]
    /\ runnable = NoQuery

NextGraph ==
    \/ \E w \in Runs : create_task(w, 0, "DEV_PYTHON")
    \/ \E t \in TaskIds, d \in TaskIds : add_task_dependency(t, d)
    \/ \E t \in TaskIds, s \in TaskStatus : update_task_status(t, s)
    \/ \E w \in Runs : CallGetRunnable(w)

SpecGraph == InitGraph /\ [][NextGraph]_vars

\* ------------------------- the task tables called with any ids (SpecStore)
\* create_task with INSERT OR REPLACE: a row with the id is replaced by a
\* pending one.
create_task_call_replace(c, task_id, w, s, agent_type) ==
    /\ IsNextCall(c)
    /\ IF wfStatus[w] = "none" \/ s \notin 0..Len(stages[w])
       THEN /\ calls' = [calls EXCEPT ![c] =
                    [IdleCall EXCEPT !.pc = "raised", !.op = "create_task", !.wf = w,
                                     !.idx = task_id, !.err = "IntegrityError"]]
            /\ UNCHANGED <<storageVars, log, runnable, handlers, fn>>
       ELSE /\ taskStatus' = [taskStatus EXCEPT ![task_id] = "pending"]
            /\ taskWf' = [taskWf EXCEPT ![task_id] = w]
            /\ taskStage' = [taskStage EXCEPT ![task_id] = s]
            /\ taskAgent' = [taskAgent EXCEPT ![task_id] = agent_type]
            /\ calls' = [calls EXCEPT ![c] =
                    [IdleCall EXCEPT !.pc = "returned", !.op = "create_task", !.wf = w,
                                     !.idx = task_id]]
            /\ UNCHANGED <<wfStatus, wfError, stages, deps, tokenUsage, usage, wfTokens, log,
                           runnable, handlers, fn>>

\* create_task called with a task id the caller chose, as engine.py 83 does:
\* the INSERT raises sqlite3.IntegrityError when the id exists (tasks.id is the
\* PRIMARY KEY) or the run or the stage does not (foreign keys), and
\* Database.connection rolls back; otherwise the row is inserted with status
\* 'pending'.
create_task_call(c, task_id, w, s, agent_type) ==
    /\ IsNextCall(c)
    /\ IF TaskExists(task_id) \/ wfStatus[w] = "none" \/ s \notin 0..Len(stages[w])
       THEN /\ calls' = [calls EXCEPT ![c] =
                    [IdleCall EXCEPT !.pc = "raised", !.op = "create_task", !.wf = w,
                                     !.idx = task_id, !.err = "IntegrityError"]]
            /\ UNCHANGED <<storageVars, log, runnable, handlers, fn>>
       ELSE /\ taskStatus' = [taskStatus EXCEPT ![task_id] = "pending"]
            /\ taskWf' = [taskWf EXCEPT ![task_id] = w]
            /\ taskStage' = [taskStage EXCEPT ![task_id] = s]
            /\ taskAgent' = [taskAgent EXCEPT ![task_id] = agent_type]
            /\ calls' = [calls EXCEPT ![c] =
                    [IdleCall EXCEPT !.pc = "returned", !.op = "create_task", !.wf = w,
                                     !.idx = task_id]]
            /\ UNCHANGED <<wfStatus, wfError, stages, deps, tokenUsage, usage, wfTokens, log,
                           runnable, handlers, fn>>

\* add_task_dependency with a plain INSERT: an edge that exists violates the
\* primary key (task_id, depends_on_task_id).
add_task_dependency_call_plain(c, task_id, depends_on_task_id) ==
    /\ IsNextCall(c)
    /\ IF ~TaskExists(task_id) \/ ~TaskExists(depends_on_task_id)
          \/ <<task_id, depends_on_task_id>> \in deps
       THEN /\ calls' = [calls EXCEPT ![c] =
                    [IdleCall EXCEPT !.pc = "raised", !.op = "add_task_dependency",
                                     !.idx = task_id, !.sel = <<depends_on_task_id>>,
                                     !.err = "IntegrityError"]]
            /\ UNCHANGED <<storageVars, log, runnable, handlers, fn>>
       ELSE /\ deps' = deps \cup {<<task_id, depends_on_task_id>>}
            /\ calls' = [calls EXCEPT ![c] =
                    [IdleCall EXCEPT !.pc = "returned", !.op = "add_task_dependency",
                                     !.idx = task_id, !.sel = <<depends_on_task_id>>]]
            /\ UNCHANGED <<wfStatus, wfError, stages, taskStatus, taskWf, taskStage, taskAgent,
                           tokenUsage, usage, wfTokens, log, runnable, handlers, fn>>

\* add_task_dependency called with any two ids: INSERT OR IGNORE skips a row
\* that violates the primary key (task_id, depends_on_task_id); a foreign key
\* violation (one of the tasks does not exist) is not a conflict OR IGNORE
\* covers and raises sqlite3.IntegrityError.
add_task_dependency_call(c, task_id, depends_on_task_id) ==
    /\ IsNextCall(c)
    /\ IF ~TaskExists(task_id) \/ ~TaskExists(depends_on_task_id)
       THEN /\ calls' = [calls EXCEPT ![c] =
                    [IdleCall EXCEPT !.pc = "raised", !.op = "add_task_dependency",
                                     !.idx = task_id, !.sel = <<depends_on_task_id>>,
                                     !.err = "IntegrityError"]]
            /\ UNCHANGED <<storageVars, log, runnable, handlers, fn>>
       ELSE /\ deps' = IF <<task_id, depends_on_task_id>> \in deps
                       THEN deps
                       ELSE deps \cup {<<task_id, depends_on_task_id>>}
            /\ calls' = [calls EXCEPT ![c] =
                    [IdleCall EXCEPT !.pc = "returned", !.op = "add_task_dependency",
                                     !.idx = task_id, !.sel = <<depends_on_task_id>>]]
            /\ UNCHANGED <<wfStatus, wfError, stages, taskStatus, taskWf, taskStage, taskAgent,
                           tokenUsage, usage, wfTokens, log, runnable, handlers, fn>>

\* One run with its stages, no task yet; the other run id names no row.
InitStore ==
    /\ wfStatus = [w \in Runs |-> IF w = "w1" THEN "pending" ELSE "none"]
    /\ wfError = [w \in Runs |-> "none"]
    /\ stages = [w \in Runs |->
                    IF w = "w1" THEN create_stages(WORKFLOWS.security_audit) ELSE <<>>]
    /\ taskStatus = [t \in TaskIds |-> "none"]
    /\ taskWf = [t \in TaskIds |-> "none"]
    /\ taskStage = [t \in TaskIds |-> 0]
    /\ taskAgent = [t \in TaskIds |-> "none"]
    /\ tokenUsage = [w \in Runs |-> 0]
    /\ usage = <<>>
    /\ wfTokens = [w \in Runs |-> 0]
    /\ handlers = [e \in EventNames |-> <<"h1">>]
    /\ fn = NoCall
    /\ deps = {}
    /\ calls = [c \in Calls |-> IdleCall]
    /\ log = [c \in Calls |-> <<>>]
    /\ runnable = NoQuery

NextStore ==
    \/ \E w \in Runs : create_task(w, 0, "DEV_PYTHON")
    \/ \E c \in Calls, t \in TaskIds, w \in Runs, st \in 0..1 :
            create_task_call(c, t, w, st, "RESEARCH")
    \/ \E c \in Calls, t \in TaskIds, d \in TaskIds : add_task_dependency_call(c, t, d)
    \/ \E t \in TaskIds, st \in TaskStatus : update_task_status(t, st)

SpecStore == InitStore /\ [][NextStore]_vars

\* ------------------------------------ context/windowing.py (SpecWindow)
MAX_CHARS_PER_DEPENDENCY == 8000
MAX_TOTAL_CONTEXT_CHARS == 32000
SUMMARY_TARGET_CHARS == 1000

\* A string, as far as the windowing reads it: its length and the indices
\* (from 0) of its periods.
Text(len, dots) == [len |-> len, dots |-> {i \in dots : i < len}]

\* text[:k]
Prefix(text, k) ==
    [len |-> IF k < text.len THEN k ELSE text.len, dots |-> {i \in text.dots : i < k}]

\* text.rfind("."): the index of the last period, -1 when there is none.
rfind(text) ==
    IF text.dots = {} THEN -1 ELSE CHOOSE i \in text.dots : \A j \in text.dots : j <= i

\* text + "..."
Ellipsis(text) ==
    [len |-> text.len + 3, dots |-> text.dots \cup {text.len, text.len + 1, text.len + 2}]

\* truncate_to_summary cutting at a period at the middle of the target too.
truncate_to_summary_at_half(text, target_chars) ==
    IF text.len <= target_chars
    THEN text
    ELSE LET truncated == Prefix(text, target_chars)
             last_period == rfind(truncated)
         IN IF last_period >= target_chars \div 2
            THEN Prefix(truncated, last_period + 1)
            ELSE Ellipsis(truncated)

\* truncate_to_summary(text, target_chars), lines 34-41.
truncate_to_summary(text, target_chars) ==
    IF text.len <= target_chars
    THEN text
    ELSE LET truncated == Prefix(text, target_chars)
             last_period == rfind(truncated)
         IN IF last_period > target_chars \div 2
            THEN Prefix(truncated, last_period + 1)
            ELSE Ellipsis(truncated)

\* apply_windowing, lines 59-77: the loop from position i on, with the
\* total_chars and the windowed list of the items before i.
RECURSIVE windowing_loop(_, _, _, _)
windowing_loop(dependencies, i, total_chars, windowed) ==
    IF i > Len(dependencies)
    THEN windowed
    ELSE LET dep == dependencies[i]
             output == IF dep.output.len > MAX_CHARS_PER_DEPENDENCY
                       THEN truncate_to_summary(dep.output, MAX_CHARS_PER_DEPENDENCY)
                       ELSE dep.output
             remaining == MAX_TOTAL_CONTEXT_CHARS - total_chars
         IN IF total_chars + output.len > MAX_TOTAL_CONTEXT_CHARS
            THEN IF remaining > SUMMARY_TARGET_CHARS
                 THEN LET out2 == truncate_to_summary(output, remaining)
                      IN windowing_loop(dependencies, i + 1, total_chars + out2.len,
                                        Append(windowed, [dep EXCEPT !.output = out2]))
                 ELSE windowing_loop(dependencies, i + 1, total_chars, windowed)
            ELSE windowing_loop(dependencies, i + 1, total_chars + output.len,
                                Append(windowed, [dep EXCEPT !.output = output]))

\* apply_windowing(dependencies), lines 56-79.
apply_windowing(dependencies) == windowing_loop(dependencies, 1, 0, <<>>)

\* The dependency outputs callers pass: short ones, ones of exactly the
\* per-item cap and longer ones, with no period, a period at or right after
\* the middle of the cap, or both.
MaxDeps == 4
OutputLengths == {500, MAX_CHARS_PER_DEPENDENCY, 9000}
PeriodPositions == {MAX_CHARS_PER_DEPENDENCY \div 2, MAX_CHARS_PER_DEPENDENCY \div 2 + 1}
Outputs == {Text(n, ds) : n \in OutputLengths, ds \in SUBSET PeriodPositions}
DependencyLists ==
    UNION {[1..n -> {[task_id |-> 0, output |-> o] : o \in Outputs}] : n \in 0..MaxDeps}

\* An empty database, no call made, one handler per event.
NoRows ==
    /\ wfStatus = [w \in Runs |-> "none"]
    /\ wfError = [w \in Runs |-> "none"]
    /\ stages = [w \in Runs |-> <<>>]
    /\ taskStatus = [t \in TaskIds |-> "none"]
    /\ taskWf = [t \in TaskIds |-> "none"]
    /\ taskStage = [t \in TaskIds |-> 0]
    /\ taskAgent = [t \in TaskIds |-> "none"]
    /\ tokenUsage = [w \in Runs |-> 0]
    /\ usage = <<>>
    /\ wfTokens = [w \in Runs |-> 0]
    /\ handlers = [e \in EventNames |-> <<"h1">>]
    /\ deps = {}
    /\ calls = [c \in Calls |-> IdleCall]
    /\ log = [c \in Calls |-> <<>>]
    /\ runnable = NoQuery

\* A caller is about to call apply_windowing with a list of dependencies.
InitWindow ==
    /\ NoRows
    /\ \E ds \in DependencyLists :
            fn = [NoCall EXCEPT !.name = "apply_windowing", !.args = <<ds>>]

\* The call of apply_windowing returns.
call_apply_windowing ==
    /\ fn.name = "apply_windowing" /\ ~fn.done
    /\ fn' = [fn EXCEPT !.ret = apply_windowing(fn.args[1]), !.done = TRUE]
    /\ UNCHANGED <<storageVars, handlers, calls, log, runnable>>

NextWindow == call_apply_windowing

SpecWindow == InitWindow /\ [][NextWindow]_vars

\* ------------------- the context execute_task builds (SpecContext)
\* escape_xml(text), serializer.py 15-21: every '&' becomes "&amp;"; of a text
\* the model keeps the length and the number of '&' characters.
escape_xml(text) == [len |-> text.len + 4 * text.amps, amps |-> text.amps]

\* execute_task, lines 80-94: one entry per dependency that has a task_outputs
\* row, carrying the summary of that row as it is stored.
RECURSIVE dep_outputs(_)
dep_outputs(dependencies) ==
    IF dependencies = <<>>
    THEN <<>>
    ELSE LET dep == Head(dependencies)
         IN (IF dep.has_output
             THEN <<[task_id |-> dep.task_id, summary |-> dep.summary]>>
             ELSE <<>>) \o dep_outputs(Tail(dependencies))

\* build_task_context, serializer.py 121-135: per dependency, in the order
\* given, the <summary> element with the escaped summary.
build_task_context(dependencies) ==
    [i \in DOMAIN dependencies |->
        [task_id |-> dependencies[i].task_id, summary |-> escape_xml(dependencies[i].summary)]]

\* The summaries agents return (response_parser.py 88: the content of the
\* <summary> tag, of any length), and the dependencies of a task: each with or
\* without an output row.
SummaryLengths == {0, 500, 9000, 40000}
Summaries == {[len |-> n, amps |-> a] : n \in SummaryLengths, a \in 0..1}
TaskDependencies ==
    UNION {[1..n -> {[task_id |-> 0, has_output |-> FALSE, summary |-> [len |-> 0, amps |-> 0]]}
                    \cup {[task_id |-> 0, has_output |-> TRUE, summary |-> x] : x \in Summaries}]
           : n \in 0..MaxDeps}

\* execute_task is about to build the context of a task with these
\* dependencies.
InitContext ==
    /\ NoRows
    /\ \E ds \in TaskDependencies :
            fn = [NoCall EXCEPT !.name = "execute_task", !.args = <<ds>>]

\* execute_task, lines 79-109: the context is built from the dependency
\* outputs and saved; fn.ret is the dependencies section of that context.
execute_task_context ==
    /\ fn.name = "execute_task" /\ ~fn.done
    /\ fn' = [fn EXCEPT !.ret = build_task_context(dep_outputs(fn.args[1])), !.done = TRUE]
    /\ UNCHANGED <<storageVars, handlers, calls, log, runnable>>

NextContext == execute_task_context

SpecContext == InitContext /\ [][NextContext]_vars

\* --------------------------------------------- Python floats (binary64)
\* A natural number of any size is the sequence of its digits in base 1024
\* (limbs of LimbBits bits), the most significant first. A non-negative float
\* is its significand, a natural of exactly SignificandBits bits, and the
\* exponent of its last bit: the value is significand * 2^e. Zero has the empty
\* significand. The values of this model are far from the subnormal and the
\* overflow range.
SignificandBits == 53
LimbBits == 10
Base == 1024

FZero == [m |-> <<>>, e |-> 0]

Pow2(k) == <<1, 2, 4, 8, 16, 32, 64, 128, 256, 512, 1024>>[k + 1]

Zeros(n) == [i \in 1..n |-> 0]

Front(x) == SubSeq(x, 1, Len(x) - 1)

RECURSIVE StripZeros(_)
StripZeros(x) ==
    IF x = <<>> THEN <<>> ELSE IF Head(x) = 0 THEN StripZeros(Tail(x)) ELSE x

\* The number of trailing zero limbs.
RECURSIVE TrailingZeros(_)
TrailingZeros(x) ==
    IF x = <<>> \/ x[Len(x)] # 0 THEN 0 ELSE 1 + TrailingZeros(Front(x))

\* The limbs of an int.
RECURSIVE ToLimbs(_)
ToLimbs(n) == IF n = 0 THEN <<>> ELSE Append(ToLimbs(n \div Base), n % Base)

\* The number of bits of a natural without leading zero limbs.
BitLen(x) ==
    IF x = <<>>
    THEN 0
    ELSE (Len(x) - 1) * LimbBits
         + CHOOSE k \in 1..LimbBits : x[1] < Pow2(k) /\ x[1] >= Pow2(k - 1)

\* x * 2^s for s below LimbBits.
ShiftLeft(x, s) ==
    StripZeros([i \in 1..(Len(x) + 1) |->
        (IF i = 1 THEN 0 ELSE (x[i - 1] * Pow2(s)) % Base)
        + (IF i <= Len(x) THEN (x[i] * Pow2(s)) \div Base ELSE 0)])

\* x * 2^n
ShiftLeftBits(x, n) ==
    IF x = <<>> THEN <<>> ELSE ShiftLeft(x, n % LimbBits) \o Zeros(n \div LimbBits)

\* x + y + carry
RECURSIVE AddBig(_, _, _)
AddBig(x, y, carry) ==
    IF x = <<>> /\ y = <<>>
    THEN ToLimbs(carry)
    ELSE LET a == IF x = <<>> THEN 0 ELSE x[Len(x)]
             b == IF y = <<>> THEN 0 ELSE y[Len(y)]
             t == a + b + carry
         IN Append(AddBig(IF x = <<>> THEN x ELSE Front(x),
                          IF y = <<>> THEN y ELSE Front(y), t \div Base), t % Base)

\* x * k + carry for a limb k
RECURSIVE MulSmall(_, _, _)
MulSmall(x, k, carry) ==
    IF x = <<>>
    THEN ToLimbs(carry)
    ELSE LET t == x[Len(x)] * k + carry
         IN Append(MulSmall(Front(x), k, t \div Base), t % Base)

\* x * y
RECURSIVE MulBig(_, _)
MulBig(x, y) ==
    IF y = <<>>
    THEN <<>>
    ELSE AddBig(MulSmall(x, y[Len(y)], 0), Append(MulBig(x, Front(y)), 0), 0)

\* Round to nearest, ties to even: the float nearest to the exact value, which
\* is x * 2^e when sticky is false and lies above it by less than 2^e when
\* sticky is true.
RoundFloat(x0, e, sticky) ==
    LET x == StripZeros(x0)
        P == SignificandBits
        L == BitLen(x)
    IN IF x = <<>>
       THEN FZero
       ELSE IF L <= P
       THEN [m |-> ShiftLeftBits(x, P - L), e |-> e - (P - L)]
       ELSE LET t == (LimbBits - ((L - P) % LimbBits)) % LimbBits
                y == ShiftLeft(x, t)
                keep == SubSeq(y, 1, P \div LimbBits + 1)
                D == SubSeq(y, P \div LimbBits + 2, Len(y))
                rest == sticky \/ D[1] % (Base \div 2) # 0 \/ \E i \in 2..Len(D) : D[i] # 0
                up == D[1] >= Base \div 2 /\ (rest \/ keep[Len(keep)] % 2 = 1)
                inc == IF up THEN AddBig(keep, <<>>, 1) ELSE keep
                e2 == e - t + Len(D) * LimbBits
            IN IF BitLen(inc) > P
               THEN [m |-> ShiftLeftBits(<<1>>, P - 1), e |-> e2 + 1]
               ELSE [m |-> inc, e |-> e2]

\* The long division of r by d, a limb at a time, until the quotient has two
\* bits more than a significand or the remainder is 0.
RECURSIVE DivLimbs(_, _, _, _)
DivLimbs(r, d, limbs, nfrac) ==
    IF r = 0 \/ BitLen(StripZeros(limbs)) >= SignificandBits + 2
    THEN [limbs |-> limbs, nfrac |-> nfrac, r |-> r]
    ELSE DivLimbs((r * Base) % d, d, Append(limbs, (r * Base) \div d), nfrac + 1)

\* a / d of two ints (true division: the correctly rounded quotient), for
\* a >= 0 and 0 < d < 2^21.
FDiv(a, d) ==
    LET q == DivLimbs(a % d, d, ToLimbs(a \div d), 0)
    IN RoundFloat(q.limbs, -(q.nfrac * LimbBits), q.r # 0)

\* f * g
FMul(f, g) ==
    IF f = FZero \/ g = FZero
    THEN FZero
    ELSE LET z == TrailingZeros(g.m)
         IN RoundFloat(MulBig(f.m, SubSeq(g.m, 1, Len(g.m) - z)),
                       f.e + g.e + z * LimbBits, FALSE)

\* f + g
FAdd(f, g) ==
    IF f = FZero THEN g
    ELSE IF g = FZero THEN f
    ELSE LET e == IF f.e < g.e THEN f.e ELSE g.e
         IN RoundFloat(AddBig(ShiftLeftBits(f.m, f.e - e), ShiftLeftBits(g.m, g.e - e), 0),
                       e, FALSE)

\* f >= g
FGeq(f, g) ==
    IF g = FZero THEN TRUE
    ELSE IF f = FZero THEN FALSE
    ELSE IF f.e # g.e THEN f.e > g.e
    ELSE \/ f.m = g.m
         \/ \E i \in DOMAIN f.m :
                f.m[i] > g.m[i] /\ \A j \in 1..(i - 1) : f.m[j] = g.m[j]

\* ------------------------------ truncate_to_summary alone (SpecTruncate)
\* The texts and targets callers pass: every text of up to MaxTextLen
\* characters, as its length and the places of its periods, and every target
\* up to that length.
MaxTextLen == 6
Texts == UNION {{Text(n, ds) : ds \in SUBSET (0..(n - 1))} : n \in 0..MaxTextLen}
Targets == 0..MaxTextLen

\* A caller is about to call truncate_to_summary(text, target_chars).
InitTruncate ==
    /\ NoRows
    /\ \E text \in Texts, target_chars \in Targets :
            fn = [NoCall EXCEPT !.name = "truncate_to_summary", !.args = <<text, target_chars>>]

\* The call of truncate_to_summary returns.
call_truncate_to_summary ==
    /\ fn.name = "truncate_to_summary" /\ ~fn.done
    /\ fn' = [fn EXCEPT !.ret = truncate_to_summary(fn.args[1], fn.args[2]), !.done = TRUE]
    /\ UNCHANGED <<storageVars, handlers, calls, log, runnable>>

NextTruncate == call_truncate_to_summary

SpecTruncate == InitTruncate /\ [][NextTruncate]_vars

\* ------------- execute_task, the agent type of a task (SpecAgentType)
\* An agent_type string is the list of its parts between the "_" characters:
\* "DEV_PYTHON" is <<"DEV", "PYTHON">>, "DEV_" is <<"DEV", "">>.
AgentType ==
    {<<"PM">>, <<"ARCH">>, <<"RESEARCH">>, <<"GD">>, <<"UIUX">>, <<"CQR">>, <<"SR">>, <<"QE">>,
     <<"E2E">>, <<"TQR">>, <<"DOE">>, <<"TL", "PYTHON">>, <<"TL", "JAVASCRIPT">>,
     <<"DEV", "PYTHON">>, <<"DEV", "JAVASCRIPT">>}

\* str.startswith(prefix + "_")
startswith(str, prefix) == Len(str) >= 2 /\ str[1] = prefix

\* resolve_agent_type with PM for every string that is no AgentType.
resolve_agent_type_pm(agent_type_str) ==
    IF agent_type_str \in AgentType THEN agent_type_str ELSE <<"PM">>

\* execute_task, lines 67-77: AgentType(task["agent_type"]), and for a string
\* that is no value of the enum DEV_PYTHON, TL_PYTHON or PM by its prefix.
resolve_agent_type(agent_type_str) ==
    IF agent_type_str \in AgentType THEN agent_type_str
    ELSE IF startswith(agent_type_str, "DEV") THEN <<"DEV", "PYTHON">>
    ELSE IF startswith(agent_type_str, "TL") THEN <<"TL", "PYTHON">>
    ELSE <<"PM">>

\* The agent_type strings of the tasks: one to three parts.
MaxParts == 3
Parts == {"PM", "QE", "DEV", "TL", "dev", "PYTHON", "RUST", ""}
Selectors == UNION {[1..n -> Parts] : n \in 1..MaxParts}

\* execute_task is called with a task whose agent_type is any selector.
InitAgentType ==
    /\ NoRows
    /\ \E a \in Selectors : fn = [NoCall EXCEPT !.name = "execute_task", !.args = <<a>>]

\* execute_task resolves the agent type of its task.
execute_task_agent_type ==
    /\ fn.name = "execute_task" /\ ~fn.done
    /\ fn' = [fn EXCEPT !.ret = resolve_agent_type(fn.args[1]), !.done = TRUE]
    /\ UNCHANGED <<storageVars, handlers, calls, log, runnable>>

NextAgentType == execute_task_agent_type

SpecAgentType == InitAgentType /\ [][NextAgentType]_vars

\* ------------------------------------------- context/budget.py (SpecBudget)
ModelTier == {"haiku", "sonnet", "opus"}

\* TOKEN_COSTS (constants.py 87-91): USD per million tokens, as the floats the
\* literals denote (0.25, 1.25, 3.0, 15.0, 15.0 and 75.0 are exact).
TOKEN_COSTS ==
    [haiku |-> [input |-> FDiv(1, 4), output |-> FDiv(5, 4)],
     sonnet |-> [input |-> FDiv(3, 1), output |-> FDiv(15, 1)],
     opus |-> [input |-> FDiv(15, 1), output |-> FDiv(75, 1)]]

\* BUDGET_WARNING_THRESHOLD = 0.8 (constants.py 96): the float nearest to 4/5.
BUDGET_WARNING_THRESHOLD == FDiv(4, 5)

MILLION == 1000000

\* calculate_cost(model_tier, input_tokens, output_tokens), lines 25-28.
calculate_cost(model_tier, input_tokens, output_tokens) ==
    LET costs == TOKEN_COSTS[model_tier]
        input_cost == FMul(FDiv(input_tokens, MILLION), costs.input)
        output_cost == FMul(FDiv(output_tokens, MILLION), costs.output)
    IN FAdd(input_cost, output_cost)

\* A model string is the list of its parts between the "-" characters
\* (model.split("-")): "haiku-4.5" is <<"haiku", "4.5">>.
\* str.lower() on the parts this model uses.
lower(str) ==
    IF str = "Haiku" THEN "haiku" ELSE IF str = "OPUS" THEN "opus" ELSE str

\* record_usage, lines 53-60: the tier is the part after the first "-" when
\* the string has one, the whole string otherwise; ModelTier(...) raises
\* ValueError for a string that names no tier, and the tier is then sonnet.
parse_tier(model) ==
    LET tier_str == IF Len(model) > 1 THEN model[2] ELSE model[1]
    IN IF lower(tier_str) \in ModelTier THEN lower(tier_str) ELSE "sonnet"

\* The rows of token_usage of a run.
UsageOf(w) == SelectSeq(usage, LAMBDA row : row.workflow_run_id = w)

\* SUM(column) over rows.
RECURSIVE SumInput(_)
SumInput(rows) == IF rows = <<>> THEN 0 ELSE Head(rows).input_tokens + SumInput(Tail(rows))

RECURSIVE SumOutput(_)
SumOutput(rows) == IF rows = <<>> THEN 0 ELSE Head(rows).output_tokens + SumOutput(Tail(rows))

\* SUM(cost_usd) of the rows as SQLite adds REAL values, in row order (0.0
\* without rows).
RECURSIVE SumCost(_)
SumCost(rows) ==
    IF rows = <<>> THEN FZero
    ELSE FAdd(SumCost(SubSeq(rows, 1, Len(rows) - 1)), rows[Len(rows)].cost_usd)

\* get_workflow_usage(workflow_run_id), lines 84-101.
get_workflow_usage(w) ==
    [total_input |-> SumInput(UsageOf(w)),
     total_output |-> SumOutput(UsageOf(w)),
     total_tokens |-> SumInput(UsageOf(w)) + SumOutput(UsageOf(w)),
     total_cost |-> SumCost(UsageOf(w))]

\* check_budget with total <= budget.
check_budget_inclusive(w, budget) ==
    LET total == get_workflow_usage(w).total_tokens
        percent == IF budget > 0 THEN FDiv(total, budget) ELSE FZero
    IN <<total <= budget, percent>>

\* check_budget(workflow_run_id, budget), lines 116-119.
check_budget(w, budget) ==
    LET total == get_workflow_usage(w).total_tokens
        percent == IF budget > 0 THEN FDiv(total, budget) ELSE FZero
    IN <<total < budget, percent>>

\* is_budget_warning with percent > threshold.
is_budget_warning_strict(w, budget) ==
    LET percent == check_budget(w, budget)[2]
    IN FGeq(percent, BUDGET_WARNING_THRESHOLD) /\ percent # BUDGET_WARNING_THRESHOLD

\* is_budget_warning(workflow_run_id, budget), lines 134-135.
is_budget_warning(w, budget) ==
    LET percent == check_budget(w, budget)[2]
    IN FGeq(percent, BUDGET_WARNING_THRESHOLD)

\* The calls the model makes: up to MaxRecords usage records, token counts
\* around the budgets, budgets including 0.
MaxRecords == 2
TokenAmounts == {0, 4, 999, 1000}
OutputAmounts == {0, 1}
Budgets == {0, 5, 1000}
Models ==
    {<<"haiku">>, <<"Haiku">>, <<"haiku", "4.5">>, <<"opus", "4.1">>, <<"claude", "opus", "4">>,
     <<"gpt4">>}

\* record_usage(workflow_run_id, ..., model, input_tokens, output_tokens),
\* lines 53-72: one row with the cost of the parsed tier is inserted and the
\* cost returned; the INSERT raises for a run that does not exist (foreign
\* key).
record_usage_call(w, model, input_tokens, output_tokens) ==
    LET cost == calculate_cost(parse_tier(model), input_tokens, output_tokens)
        args == <<w, model, input_tokens, output_tokens>>
    IN /\ Len(usage) < MaxRecords
       /\ IF wfStatus[w] = "none"
          THEN /\ fn' = [name |-> "record_usage", args |-> args, ret |-> "IntegrityError",
                         done |-> TRUE]
               /\ UNCHANGED <<usage, tokenUsage>>
          ELSE /\ usage' = Append(usage,
                        [workflow_run_id |-> w, model |-> model, input_tokens |-> input_tokens,
                         output_tokens |-> output_tokens, cost_usd |-> cost])
               /\ tokenUsage' = [tokenUsage EXCEPT ![w] = @ + input_tokens + output_tokens]
               /\ fn' = [name |-> "record_usage", args |-> args, ret |-> cost, done |-> TRUE]
       /\ UNCHANGED <<wfStatus, wfError, stages, taskStatus, taskWf, taskStage, taskAgent, deps,
                      wfTokens, handlers, calls, log, runnable>>

\* A caller calls check_budget and keeps the result.
call_check_budget(w, budget) ==
    /\ fn' = [name |-> "check_budget", args |-> <<w, budget>>, ret |-> check_budget(w, budget),
              done |-> TRUE]
    /\ UNCHANGED <<storageVars, handlers, calls, log, runnable>>

\* A caller calls is_budget_warning and keeps the result.
call_is_budget_warning(w, budget) ==
    /\ fn' = [name |-> "is_budget_warning", args |-> <<w, budget>>,
              ret |-> is_budget_warning(w, budget), done |-> TRUE]
    /\ UNCHANGED <<storageVars, handlers, calls, log, runnable>>

\* One run exists, without usage records.
InitBudget ==
    /\ wfStatus = [w \in Runs |-> IF w = "w1" THEN "running" ELSE "none"]
    /\ wfError = [w \in Runs |-> "none"]
    /\ stages = [w \in Runs |-> <<>>]
    /\ taskStatus = [t \in TaskIds |-> "none"]
    /\ taskWf = [t \in TaskIds |-> "none"]
    /\ taskStage = [t \in TaskIds |-> 0]
    /\ taskAgent = [t \in TaskIds |-> "none"]
    /\ tokenUsage = [w \in Runs |-> 0]
    /\ usage = <<>>
    /\ wfTokens = [w \in Runs |-> 0]
    /\ handlers = [e \in EventNames |-> <<"h1">>]
    /\ fn = NoCall
    /\ deps = {}
    /\ calls = [c \in Calls |-> IdleCall]
    /\ log = [c \in Calls |-> <<>>]
    /\ runnable = NoQuery

NextBudget ==
    \/ \E w \in Runs, model \in Models, i \in TokenAmounts, o \in OutputAmounts :
            record_usage_call(w, model, i, o)
    \/ \E w \in Runs, b \in Budgets : call_check_budget(w, b)
    \/ \E w \in Runs, b \in Budgets : call_is_budget_warning(w, b)

SpecBudget == InitBudget /\ [][NextBudget]_vars

\* -------------------------------------- calculate_cost alone (SpecCost)
CostTokens == {0, 1, 2, 3}

\* A tier and two pairs of token counts are chosen.
InitCost ==
    /\ NoRows
    /\ \E tier \in ModelTier, a \in CostTokens, b \in CostTokens, c \in CostTokens,
          d \in CostTokens :
            fn = [name |-> "calculate_cost", args |-> <<tier, a, b, c, d>>, ret |-> <<>>,
                  done |-> FALSE]

\* calculate_cost is applied to each pair and to their sum.
call_calculate_cost ==
    /\ fn.name = "calculate_cost" /\ ~fn.done
    /\ LET tier == fn.args[1]
           a == fn.args[2]
           b == fn.args[3]
           c == fn.args[4]
           d == fn.args[5]
       IN fn' = [fn EXCEPT !.done = TRUE,
                           !.ret = <<calculate_cost(tier, a, b), calculate_cost(tier, c, d),
                                     calculate_cost(tier, a + c, b + d)>>]
    /\ UNCHANGED <<storageVars, handlers, calls, log, runnable>>

NextCost == call_calculate_cost

SpecCost == InitCost /\ [][NextCost]_vars

\* C1: every result of get_runnable_tasks(w) is exactly the set of tasks of w
\* that are pending and all of whose dependency edges point to completed tasks.
C1_RunnableExact ==
    runnable.wf # "none" =>
        runnable.ids =
            {t \in ExistingTasks :
                /\ taskWf[t] = runnable.wf
                /\ taskStatus[t] = "pending"
                /\ \A d \in TaskIds : <<t, d>> \in deps => taskStatus[d] = "completed"}

\* A query that returned a task whose predecessor is completed and left out a
\* pending task of the same run whose predecessor is not completed.
C1_Witness ==
    /\ runnable.wf # "none"
    /\ \E t \in runnable.ids : get_task_dependencies(t) # {}
    /\ \E u \in ExistingTasks :
        /\ taskWf[u] = runnable.wf /\ taskStatus[u] = "pending" /\ u \notin runnable.ids

\* ------------------------------------------------------------------ claims
\* The number of leading stages a snapshot shows completed.
LeadingCompleted(snap) ==
    Cardinality({k \in DOMAIN snap : \A j \in 1..k : snap[j] = "completed"})

\* C2: an execute (or resume) that found the first K stages completed invokes
\* the Stage Executor only for stages after them, in increasing order, and
\* dispatches no task of the first K stages.
C2_ResumeSkipsCompleted ==
    \A c \in Calls :
        (calls[c].op = "engine" /\ calls[c].snap # <<>>) =>
            LET K == LeadingCompleted(calls[c].snap) IN
            /\ \A p \in DOMAIN log[c] :
                /\ log[c][p].k = "exec_stage" => log[c][p].i > K
                /\ log[c][p].k = "dispatch" => taskStage[log[c][p].i] > K
            /\ \A p, q \in DOMAIN log[c] :
                (p < q /\ log[c][p].k = "exec_stage" /\ log[c][q].k = "exec_stage")
                    => log[c][p].i < log[c][q].i

\* A finished invocation that found one stage or more (not all) completed and
\* ran two stages or more.
C2_Witness ==
    \E c \in Calls :
        /\ calls[c].pc = "returned" /\ calls[c].snap # <<>>
        /\ LeadingCompleted(calls[c].snap) >= 1
        /\ Cardinality({p \in DOMAIN log[c] : log[c][p].k = "exec_stage"}) >= 2
        /\ \E p \in DOMAIN log[c] : log[c][p].k = "dispatch"

\* The step appends to the log of c the mark of stage j as running.
MarkedRunning(c, j) ==
    \E p \in (Len(log[c]) + 1)..Len(log'[c]) : log'[c][p] = E("stage", "running", j)

C4_FailureInLog(c) ==
    \A p \in DOMAIN log[c] :
        log[c][p] \in {E("stage", "failed", i) : i \in 1..Len(WORKFLOWS.fix_bug)} =>
            /\ calls[c].pc \in {"returned", "raised"}
            /\ p < Len(log[c]) /\ log[c][p + 1] = E("emit", "stage_failed", log[c][p].i)
            /\ \E q \in DOMAIN log[c] :
                /\ q > p + 1 /\ q < Len(log[c])
                /\ log[c][q] = E("wf", "failed", 0)
                /\ log[c][q + 1] = E("emit", "workflow_failed", 0)
            /\ \A q \in DOMAIN log[c] :
                q > p => log[c][q].k \notin {"stage", "exec_stage", "dispatch"}
            /\ Cardinality({q \in DOMAIN log[c] : log[c][q] = E("exec_stage", "", log[c][p].i)}) = 1

C4_FailureStep(c) ==
    (calls[c].pc = "stage_end" /\ calls[c].op = "engine" /\ calls[c].result = "false"
        /\ calls'[c] # calls[c]) =>
        LET w == calls[c].wf
            i == calls[c].idx
        IN /\ stages'[w][i].status = "failed"
           /\ \A j \in DOMAIN stages[w] : j # i => stages'[w][j] = stages[w][j]
           /\ wfStatus'[w] = "failed"
           /\ calls'[c].pc = "returned" => wfError'[w] # "none"
           /\ \E p \in (Len(log[c]) + 1)..Len(log'[c]) : log'[c][p] = E("stage", "failed", i)

C5_CompletedRunHasNoOpenStage ==
    \A w \in Runs :
        wfStatus[w] = "completed" =>
            \A i \in DOMAIN stages[w] : stages[w][i].status \notin {"pending", "running"}

\* The state machine of section 4.1 (a run is created and set running in one
\* step of create_and_execute).
AllowedTransitions ==
    {<<"none", "running">>, <<"pending", "running">>,
     <<"running", "completed">>, <<"running", "failed">>,
     <<"running", "cancelled">>, <<"running", "paused">>,
     <<"paused", "running">>, <<"failed", "running">>}

\* C6 as stated: every change of a run's status follows the state machine;
\* completed and cancelled are never left.
C6_StatusStateMachine ==
    [][\A w \in Runs :
            wfStatus'[w] # wfStatus[w] => <<wfStatus[w], wfStatus'[w]>> \in AllowedTransitions]_vars

\* C7 as stated: when a parallel execute_stage has returned, its result is true
\* exactly if every selected task succeeded, every selected task was passed to
\* the Task Executor and every selected task has a terminal status.
C7_ParallelStageAllTerminal ==
    \A c \in Calls :
        (calls[c].pc = "stage_done" /\ calls[c].par) =>
            /\ calls[c].result = "true" <=> \A t \in Range(calls[c].sel) : calls[c].res[t] = "ok"
            /\ \A t \in Range(calls[c].sel) :
                /\ E("dispatch", "", t) \in Range(log[c])
                /\ taskStatus[t] \in {"completed", "failed"}

\* C8: a sequential execute_stage runs its tasks one at a time in list order;
\* once a task has returned False the stage returns False, and the tasks after
\* it are never passed to the Task Executor and stay pending.
C8_SequentialStopsAtFailure ==
    \A c \in Calls :
        (calls[c].op = "execute_stage" /\ ~calls[c].par) =>
            LET sel == calls[c].sel
                res == calls[c].res
            IN /\ Cardinality({t \in Range(sel) : res[t] = "started"}) <= 1
               /\ \A k \in DOMAIN sel : \A j \in DOMAIN sel :
                    (k < j /\ res[sel[j]] # "none") => res[sel[k]] \notin {"none", "started"}
               /\ \A k \in DOMAIN sel :
                    res[sel[k]] = "fail" =>
                        /\ calls[c].pc \in {"stage_end", "stage_done"}
                        /\ calls[c].result = "false"
                        /\ \A j \in DOMAIN sel :
                            j > k => /\ res[sel[j]] = "none"
                                     /\ E("dispatch", "", sel[j]) \notin Range(log[c])
                                     /\ taskStatus[sel[j]] = "pending"
                        /\ \A j \in DOMAIN sel : j < k => res[sel[j]] = "ok"

\* A sequential stage of three tasks whose first task failed: it returned False
\* with the other two never dispatched.
C8_Witness ==
    \E c \in Calls :
        /\ calls[c].pc = "stage_done" /\ ~calls[c].par /\ calls[c].result = "false"
        /\ Len(calls[c].sel) >= 2
        /\ calls[c].res[calls[c].sel[1]] = "fail"
        /\ taskStatus[calls[c].sel[2]] = "pending"

\* C9 as stated: execute_task never raises, so execute_stage only ever gets
\* booleans from it and never raises itself.
C9_ExecuteTaskNeverRaises ==
    \A c \in Calls :
        /\ \A t \in TaskIds : calls[c].res[t] # "exc"
        /\ calls[c].result # "exc"

\* C10 as stated: after a cancel that came while execute was awaiting a stage,
\* execute marks no further stage of the run running.
C10_NoStageAfterCancel ==
    \A c \in Calls :
        calls[c].cancelAt > 0 =>
            \A p \in DOMAIN log[c] :
                p > calls[c].cancelAt =>
                    ~(log[c][p].k = "stage" /\ log[c][p].v = "running")

\* C11 as stated: after a pause that came while execute was awaiting a stage,
\* execute marks no further stage of the run running and does not mark the run
\* completed (no resume can come in between: one invocation at a time).
C11_NoProgressAfterPause ==
    \A c \in Calls :
        calls[c].pauseAt > 0 =>
            \A p \in DOMAIN log[c] :
                p > calls[c].pauseAt =>
                    /\ ~(log[c][p].k = "stage" /\ log[c][p].v = "running")
                    /\ log[c][p] # E("wf", "completed", 0)

\* What a rejected call leaves: the call raised err, no row changed, nothing
\* emitted.
Rejected(c, err) ==
    /\ calls'[c].pc = "raised" /\ calls'[c].err = err
    /\ log'[c] = <<>>
    /\ UNCHANGED <<storageVars, handlers, fn>>

\* C12: resume of an unknown id raises WorkflowNotFound, resume of a run that
\* is neither paused nor failed raises a validation error, both without
\* changing a row or emitting an event; resume of a paused or failed run is an
\* execute of that run.
C12_ResumeChecksStatus ==
    [][\A c \in Calls, w \in Runs :
            resume(c, w) =>
                /\ wfStatus[w] = "none" => Rejected(c, "WorkflowNotFound")
                /\ wfStatus[w] \notin {"none", "paused", "failed"} => Rejected(c, "ValueError")
                /\ wfStatus[w] \in {"paused", "failed"} =>
                        /\ execute(c, w)
                        /\ wfStatus'[w] = "running"
                        /\ E("emit", "workflow_started", 0) \in Range(log'[c])]_vars

\* A resume of a run that is completed, running or cancelled was rejected.
C12_Witness ==
    \E c \in Calls :
        /\ calls[c].op = "resume" /\ calls[c].err = "ValueError"
        /\ wfStatus[calls[c].wf] \in {"completed", "running", "cancelled"}
        /\ log[c] = <<>>

\* The step is the except branch of an execute whose stage loop raised.
LoopRaised(c) ==
    /\ calls[c].op = "engine" /\ calls[c].pc \in {"loop", "stage_end"}
    /\ calls'[c].pc = "raised"

\* C13 as stated: when execute's stage loop raises, the run is failed, its
\* error message is the text of an error (none at all when the error has no
\* text), workflow_failed is the last event emitted and the call raises.
C13_LoopErrorRecorded ==
    [][\A c \in Calls :
            LoopRaised(c) =>
                /\ wfStatus'[calls[c].wf] = "failed"
                /\ wfError'[calls[c].wf] \in ErrorTexts \cup {"none"}
                /\ log'[c][Len(log'[c])] = E("emit", "workflow_failed", 0)
                /\ calls'[c].err = "exception"]_vars

\* The status changes of a stage that go forward.
StageForward ==
    {<<"pending", "running">>, <<"running", "completed">>, <<"running", "failed">>}

\* C14 as stated: every change of a stage's status goes forward along
\* pending -> running -> {completed, failed}.
C14_StageStatusForward ==
    [][\A w \in Runs : \A i \in DOMAIN stages[w] :
            stages'[w][i].status # stages[w][i].status =>
                <<stages[w][i].status, stages'[w][i].status>> \in StageForward]_vars

\* C15 as stated: a task that was in flight when the process died is passed to
\* the Task Executor again by a later invocation before that invocation marks
\* the task's stage completed.
C15_InDoubtTasksRerun ==
    \A c1 \in Calls, c2 \in Calls, t \in TaskIds :
        (/\ calls[c1].pc = "dead" /\ calls[c1].res[t] = "started"
         /\ c2 # c1 /\ calls[c2].wf = calls[c1].wf
         /\ E("stage", "completed", taskStage[t]) \in Range(log[c2]))
            => E("dispatch", "", t) \in Range(log[c2])

\* C16 as stated: the token counter of a run equals the sum over the usage
\* records of the run.
C16_CountersEqualUsage ==
    \A w \in Runs : wfTokens[w] = tokenUsage[w]

\* C17 as stated: when a task completes with an output that lists follow-on
\* tasks, a new pending task of the same run is created.
C17_FollowOnTasksCreated ==
    [][\A c \in Calls, t \in TaskIds :
            (/\ Len(log'[c]) = Len(log[c]) + 1
             /\ log'[c][Len(log'[c])] = E("agent", "success_next_tasks", t))
                => \E u \in TaskIds :
                        /\ taskStatus[u] = "none" /\ taskStatus'[u] = "pending"
                        /\ taskWf'[u] = taskWf[t]]_vars

IsEmit(e) == e.k = "emit"

\* The events an invocation has emitted, in order.
Emitted(c) == SelectSeq(log[c], IsEmit)

\* A handler raised during the invocation.
HandlerRaised(c) == \E p \in DOMAIN log[c] : log[c][p].k = "raise" /\ log[c][p].v \in EventNames

EventOrder(ev, snap, ended) ==
    LET n == Len(ev) IN
    /\ \A p \in 1..n : ev[p].v = "workflow_started" <=> p = 1
    /\ \A p \in 1..n :
        /\ ev[p].v = "stage_started" =>
            /\ snap[ev[p].i] # "completed"
            /\ \A k \in 1..(ev[p].i - 1) :
                    snap[k] # "completed" =>
                        \E q \in 1..(p - 1) : ev[q] = E("emit", "stage_completed", k)
            /\ \A q \in 1..(p - 1) : ev[q].v = "stage_started" => ev[q].i < ev[p].i
            /\ p < n => ev[p + 1] \in {E("emit", "stage_completed", ev[p].i),
                                        E("emit", "stage_failed", ev[p].i)}
            /\ p = n => ~ended
        /\ ev[p].v \in {"stage_completed", "stage_failed"} =>
            /\ p > 1 /\ ev[p - 1] = E("emit", "stage_started", ev[p].i)
        /\ ev[p].v = "stage_completed" => (p = n => ~ended)
        /\ ev[p].v = "stage_failed" => (p < n => ev[p + 1].v = "workflow_failed")
        /\ ev[p].v = "workflow_completed" =>
            /\ p = n
            /\ \A k \in DOMAIN snap :
                    snap[k] # "completed" => \E q \in 1..p : ev[q] = E("emit", "stage_completed", k)
        /\ ev[p].v = "workflow_failed" =>
            /\ p = n
            /\ p > 1 /\ ev[p - 1].v = "stage_failed"

\* C18 as stated: an execute in which no handler raises emits
\* workflow_started first, then for each stage its snapshot does not show
\* completed, in stage order, stage_started followed by stage_completed or
\* stage_failed, and last workflow_completed (after every stage completed) or
\* workflow_failed (directly after the first stage_failed).
C18_EventOrder ==
    \A c \in Calls :
        (calls[c].op = "engine" /\ ~HandlerRaised(c)) =>
            EventOrder(Emitted(c), calls[c].snap, calls[c].pc \in {"returned", "raised"})

IsHandlerCall(e) == e.k = "handler"

\* The handlers an emit has invoked, in order.
Invoked(c) ==
    LET inv == SelectSeq(log[c], IsHandlerCall) IN [p \in DOMAIN inv |-> inv[p].v]

\* C19: an emit invokes the handlers registered for its event, and only those,
\* one after the other in registration order; it returns when all of them were
\* invoked; when a handler raises, the emit raises and invokes no handler
\* registered after it.
C19_InvokedInOrder(c) ==
    LET hs == handlers[calls[c].event]
        n == Len(Invoked(c))
    IN /\ n <= Len(hs) /\ Invoked(c) = SubSeq(hs, 1, n)
       /\ \A p \in DOMAIN log[c] :
            log[c][p].k = "raise" => (p = Len(log[c]) /\ calls[c].pc = "raised")
       /\ calls[c].pc = "raised" => log[c][Len(log[c])] = E("raise", hs[n], n)

C19_ReturnsAfterAll(c) ==
    (calls[c].op = "emit" /\ calls'[c].pc = "returned" /\ calls[c].pc # "returned") =>
        Len(SelectSeq(log'[c], IsHandlerCall)) = Len(handlers'[calls'[c].event])

C19_HandlersInOrder ==
    /\ [](\A c \in Calls : calls[c].op = "emit" => C19_InvokedInOrder(c))
    /\ [][\A c \in Calls : C19_ReturnsAfterAll(c)]_vars

\* An emit raised in the second of three handlers of its event, and another
\* emit returned after two handlers or more.
C19_Witness ==
    \E c \in Calls, d \in Calls :
        /\ calls[c].op = "emit" /\ calls[c].pc = "raised"
        /\ Len(Invoked(c)) = 2 /\ Len(handlers[calls[c].event]) = 3
        /\ calls[d].op = "emit" /\ calls[d].pc = "returned" /\ Len(Invoked(d)) >= 2
        /\ Invoked(d)[1] # Invoked(d)[2]

\* The task rows a step inserts.
NewTasks == {t \in TaskIds : taskStatus[t] = "none" /\ taskStatus'[t] # "none"}

\* C20: create_and_execute of a registered template with N stages creates a
\* pending run, N pending stages in template order (the stage at position i has
\* order index i - 1) with the template's names and parallel flags, and one
\* pending seed task in the first stage with that stage's first agent type,
\* all before it sets the run running and emits workflow_started; for an
\* unregistered type it raises and creates nothing.
C20_CreateFromTemplate ==
    [][\A c \in Calls, ty \in DOMAIN WORKFLOWS \cup {"no_such_type"} :
            create_and_execute(c, ty) =>
                IF ty \notin DOMAIN WORKFLOWS
                THEN Rejected(c, "WorkflowNotFound")
                ELSE LET w == calls'[c].wf
                         def == WORKFLOWS[ty]
                     IN /\ wfStatus[w] = "none" /\ wfStatus'[w] = "running"
                        /\ \A v \in Runs \ {w} : wfStatus'[v] = wfStatus[v] /\ stages'[v] = stages[v]
                        /\ SubSeq(log'[c], 1, 4) =
                                <<E("wf", "pending", 0), E("seed", "pending", CHOOSE t \in NewTasks : TRUE),
                                  E("wf", "running", 0), E("emit", "workflow_started", 0)>>
                        /\ DOMAIN stages'[w] = 1..Len(def)
                        /\ \A i \in 1..Len(def) :
                                stages'[w][i] = [status |-> "pending", name |-> def[i].name,
                                                 parallel |-> def[i].parallel]
                        /\ Cardinality(NewTasks) = 1
                        /\ \A t \in NewTasks :
                                /\ taskStatus'[t] = "pending" /\ taskWf'[t] = w
                                /\ taskStage'[t] = 1 /\ taskAgent'[t] = def[1].agent_types[1]
                        /\ \A t \in TaskIds \ NewTasks :
                                /\ taskStatus'[t] = taskStatus[t] /\ taskWf'[t] = taskWf[t]
                                /\ taskStage'[t] = taskStage[t] /\ taskAgent'[t] = taskAgent[t]]_vars

\* A run created from the three-stage template, with its seed task.
C20_Witness ==
    \E c \in Calls, t \in TaskIds :
        /\ Len(log[c]) >= 4 /\ log[c][2] = E("seed", "pending", t)
        /\ Len(stages[calls[c].wf]) = Len(WORKFLOWS.security_audit)
        /\ taskWf[t] = calls[c].wf /\ taskAgent[t] = "RESEARCH" /\ taskStage[t] = 1

\* C21: create_and_execute with a workflow type that is not registered fails
\* before creating anything: the call raises, no workflow, stage or task row
\* is created or changed, no handler list changes and the call emits nothing.
C21_UnknownTypeCreatesNothing ==
    [][\A c \in Calls, ty \in {"no_such_type"} \ DOMAIN WORKFLOWS :
            create_and_execute(c, ty) =>
                /\ calls'[c].pc = "raised" /\ calls'[c].err = "WorkflowNotFound"
                /\ calls'[c].wf = "none"
                /\ wfStatus' = wfStatus /\ stages' = stages
                /\ taskStatus' = taskStatus /\ taskWf' = taskWf /\ taskStage' = taskStage
                /\ taskAgent' = taskAgent /\ deps' = deps
                /\ log' = log /\ handlers' = handlers]_vars

\* A create_and_execute of an unregistered type has raised, after a run was
\* created from a registered one.
C21_Witness ==
    \E c \in Calls :
        /\ calls[c].op = "create_and_execute" /\ calls[c].pc = "raised"
        /\ calls[c].err = "WorkflowNotFound"
        /\ \E w \in Runs : wfStatus[w] # "none"

\* The task rows other than those of the ids in S are what they were.
TasksKept(S) ==
    \A u \in TaskIds \ S :
        /\ taskStatus'[u] = taskStatus[u] /\ taskWf'[u] = taskWf[u]
        /\ taskStage'[u] = taskStage[u] /\ taskAgent'[u] = taskAgent[u]

\* C22: create_task with a new id (of an existing run and stage) inserts the
\* task with status pending and changes no other row; create_task with an id
\* that exists raises and leaves every task row, the existing one with its
\* current status included, and every dependency edge unchanged.
C22_CreateTaskPendingOrFails ==
    [][\A c \in Calls, t \in TaskIds, w \in Runs, st \in 0..1 :
            create_task_call(c, t, w, st, "RESEARCH") =>
                /\ TaskExists(t) =>
                        /\ calls'[c].pc = "raised" /\ calls'[c].err = "IntegrityError"
                        /\ TasksKept({}) /\ deps' = deps
                /\ (~TaskExists(t) /\ wfStatus[w] # "none" /\ st \in 0..Len(stages[w])) =>
                        /\ calls'[c].pc = "returned"
                        /\ taskStatus'[t] = "pending" /\ taskWf'[t] = w
                        /\ taskStage'[t] = st /\ taskAgent'[t] = "RESEARCH"
                        /\ TasksKept({t}) /\ deps' = deps]_vars

\* create_task was called with the id of a task that had left pending, and
\* raised.
C22_Witness ==
    \E c \in Calls :
        /\ calls[c].op = "create_task" /\ calls[c].pc = "raised"
        /\ taskStatus[calls[c].idx] \in {"running", "completed", "failed"}

\* C23: add_task_dependency of two existing tasks returns without an error;
\* when the edge exists already the edge set is unchanged, otherwise it gains
\* exactly that edge; afterwards the table holds the edge once and
\* get_task_dependencies(task_id) lists the predecessor.
C23_AddDependencyIdempotent ==
    [][\A c \in Calls, t \in TaskIds, d \in TaskIds :
            (add_task_dependency_call(c, t, d) /\ TaskExists(t) /\ TaskExists(d)) =>
                /\ calls'[c].pc = "returned" /\ calls'[c].err = "none"
                /\ <<t, d>> \in deps => deps' = deps
                /\ deps' = deps \cup {<<t, d>>}
                /\ Cardinality({e \in deps' : e[1] = t /\ e[2] = d}) = 1
                /\ d \in (get_task_dependencies(t))'
                /\ TasksKept({})]_vars

\* The same edge was added by two calls, and both returned.
C23_Witness ==
    \E c \in Calls, b \in Calls :
        /\ c # b
        /\ calls[c].op = "add_task_dependency" /\ calls[c].pc = "returned"
        /\ calls[b].op = "add_task_dependency" /\ calls[b].pc = "returned"
        /\ calls[c].idx = calls[b].idx /\ calls[c].sel = calls[b].sel
        /\ <<calls[c].idx, calls[c].sel[1]>> \in deps

\* The characters of dependency output in a context.
RECURSIVE ContextChars(_)
ContextChars(ds) == IF ds = <<>> THEN 0 ELSE Head(ds).summary.len + ContextChars(Tail(ds))

\* C24: the dependency output in the context execute_task builds is within
\* MAX_CHARS_PER_DEPENDENCY per dependency and MAX_TOTAL_CONTEXT_CHARS in
\* total, whatever the number of dependencies.
C24_ContextWindowed ==
    (fn.name = "execute_task" /\ fn.done) =>
        /\ \A i \in DOMAIN fn.ret : fn.ret[i].summary.len <= MAX_CHARS_PER_DEPENDENCY
        /\ ContextChars(fn.ret) <= MAX_TOTAL_CONTEXT_CHARS

\* The sum of the lengths of the outputs of a list of dependencies.
RECURSIVE TotalChars(_)
TotalChars(ds) == IF ds = <<>> THEN 0 ELSE Head(ds).output.len + TotalChars(Tail(ds))

\* C25: the lengths of the outputs apply_windowing returns sum to at most
\* MAX_TOTAL_CONTEXT_CHARS, for every input list.
C25_TotalWithinCap ==
    (fn.name = "apply_windowing" /\ fn.done) => TotalChars(fn.ret) <= MAX_TOTAL_CONTEXT_CHARS

\* C26: every output apply_windowing returns has at most
\* MAX_CHARS_PER_DEPENDENCY characters, for every input item.
C26_ItemWithinCap ==
    (fn.name = "apply_windowing" /\ fn.done) =>
        \A i \in DOMAIN fn.ret : fn.ret[i].output.len <= MAX_CHARS_PER_DEPENDENCY

\* C27: check_budget(w, budget) returns within_budget = (used < budget), used
\* being the sum of the input and output tokens of the run's usage records, and
\* for a positive budget the fraction used / budget: with used = budget it
\* returns (False, 1.0), with used = budget - 1 within_budget is True.
C27_CheckBudgetStrict ==
    (fn.name = "check_budget" /\ fn.done) =>
        LET w == fn.args[1]
            budget == fn.args[2]
            used == SumInput(UsageOf(w)) + SumOutput(UsageOf(w))
        IN /\ fn.ret[1] = (used < budget)
           /\ budget > 0 => fn.ret[2] = FDiv(used, budget)
           /\ (budget > 0 /\ used = budget) => fn.ret = <<FALSE, FDiv(1, 1)>>
           /\ used = budget - 1 => fn.ret[1] = TRUE

\* check_budget was called with usage records of two calls summing to exactly
\* the positive budget.
C27_Witness ==
    /\ fn.name = "check_budget" /\ fn.done /\ fn.args[2] > 0
    /\ Len(UsageOf(fn.args[1])) = 2
    /\ get_workflow_usage(fn.args[1]).total_output > 0
    /\ get_workflow_usage(fn.args[1]).total_tokens = fn.args[2]

\* C28: is_budget_warning(w, budget) is true exactly when, for a positive
\* budget, 5 * used >= 4 * budget (usage of exactly 80% included), and false
\* below that.
C28_WarningAtThreshold ==
    (fn.name = "is_budget_warning" /\ fn.done /\ fn.args[2] > 0) =>
        LET used == SumInput(UsageOf(fn.args[1])) + SumOutput(UsageOf(fn.args[1]))
        IN fn.ret = (5 * used >= 4 * fn.args[2])

\* is_budget_warning was called with usage at exactly 80% of the budget.
C28_Witness ==
    /\ fn.name = "is_budget_warning" /\ fn.done /\ fn.args[2] > 0
    /\ 5 * get_workflow_usage(fn.args[1]).total_tokens = 4 * fn.args[2]
    /\ fn.ret = TRUE

\* C29: calculate_cost is additive in its token counts for every tier,
\* cost(tier, a, b) + cost(tier, c, d) = cost(tier, a + c, b + d), and
\* cost(tier, 0, 0) = 0.
C29_CostAdditive ==
    (fn.name = "calculate_cost" /\ fn.done) =>
        /\ FAdd(fn.ret[1], fn.ret[2]) = fn.ret[3]
        /\ (fn.args[2] = 0 /\ fn.args[3] = 0) => fn.ret[1] = FZero

\* The tier the claim of C30 names for a model string: a bare tier name and a
\* versioned alias of a tier name that tier, a string naming no tier is priced
\* at sonnet.
NamedTier(model) ==
    IF model[1] \in ModelTier /\ Len(model) <= 2 THEN model[1] ELSE "sonnet"

\* C30: record_usage for an existing run appends exactly one usage record and
\* returns its cost, which is the cost at the rates of the tier named by the
\* model string: haiku at its own tier, haiku-4.5 and opus-4.1 at the tier of
\* the alias, an unrecognised string (gpt4) at sonnet.
C30_PricedByNamedTier ==
    [][\A w \in Runs, model \in Models \ {<<"Haiku">>, <<"claude", "opus", "4">>},
         i \in TokenAmounts, o \in OutputAmounts :
            (record_usage_call(w, model, i, o) /\ wfStatus[w] # "none") =>
                /\ Len(usage') = Len(usage) + 1
                /\ SubSeq(usage', 1, Len(usage)) = usage
                /\ fn'.ret = calculate_cost(NamedTier(model), i, o)
                /\ usage'[Len(usage')].cost_usd = fn'.ret]_vars

\* The periods of the first k characters of a text.
DotsBefore(text, k) == {i \in text.dots : i < k}

\* C31: truncate_to_summary(text, target) returns text unchanged when
\* len(text) <= target; otherwise, with p the index of the last period among the
\* first target characters, it returns the first p + 1 characters when p is
\* greater than half of target (2 * p > target), and else the first target
\* characters followed by "...".
C31_TruncateToSummary ==
    (fn.name = "truncate_to_summary" /\ fn.done) =>
        LET text == fn.args[1]
            target == fn.args[2]
            ps == DotsBefore(text, target)
        IN IF text.len <= target
           THEN fn.ret = text
           ELSE IF \E p \in ps : 2 * p > target /\ \A q \in ps : q <= p
           THEN LET p == CHOOSE p \in ps : \A q \in ps : q <= p
                IN fn.ret = [len |-> p + 1, dots |-> DotsBefore(text, p + 1)]
           ELSE fn.ret = [len |-> target + 3,
                          dots |-> ps \cup {target, target + 1, target + 2}]

\* A text longer than the target was cut after a period past half of the
\* target, dropping characters of the slice.
C31_Witness ==
    /\ fn.name = "truncate_to_summary" /\ fn.done
    /\ fn.args[1].len > fn.args[2]
    /\ fn.ret.len < fn.args[2]
    /\ (fn.ret.len - 1) \in fn.args[1].dots
    /\ 2 * (fn.ret.len - 1) > fn.args[2]

\* Invocation c passes a task to the Task Executor in this step.
Dispatches(c) ==
    /\ execute_task_start(c)
    /\ log'[c][Len(log'[c])].k = "dispatch"

\* C32: every task execute_stage passes to the Task Executor is runnable at
\* that moment: its status is pending and every task it depends on is
\* completed, in sequential and in parallel stages.
C32_DispatchedRunnable ==
    [][\A c \in Calls :
        Dispatches(c) =>
            LET t == NextToStart(calls[c])
            IN /\ taskStatus[t] = "pending"
               /\ \A d \in get_task_dependencies(t) : taskStatus[d] = "completed"]_vars

\* The places of the logs where task t was passed to the Task Executor.
DispatchesOf(t) ==
    UNION {{<<c, p>> : p \in {q \in DOMAIN log[c] : log[c][q] = E("dispatch", "", t)}} :
            c \in Calls}

\* C33: across any interleaving of execute, pause, resume and cancel calls on a
\* run, the Task Executor is invoked at most once for each task.
C33_DispatchedAtMostOnce == \A t \in TaskIds : Cardinality(DispatchesOf(t)) <= 1

\* C34: a stage is marked completed, and a run reaches status completed, only
\* when every task that belongs to it has status completed, also when the run
\* got there through resume after an earlier failure.
C34_CompletedMeansAllTasksCompleted ==
    [][\A w \in Runs :
        /\ (wfStatus'[w] = "completed" /\ wfStatus[w] # "completed") =>
                \A t \in TaskIds : taskWf'[t] = w => taskStatus'[t] = "completed"
        /\ \A i \in DOMAIN stages[w] :
                (stages'[w][i].status = "completed" /\ stages[w][i].status # "completed") =>
                    \A t \in TaskIds :
                        (taskWf'[t] = w /\ taskStage'[t] = i) => taskStatus'[t] = "completed"]_vars

\* The step ends the execute of invocation c, by returning or by raising, and
\* leaves no other invocation in progress.
ExecuteEnds(c) ==
    /\ calls'[c].op = "engine"
    /\ calls[c].pc \notin {"returned", "raised"}
    /\ calls'[c].pc \in {"returned", "raised"}
    /\ \A b \in Calls \ {c} : calls'[b].pc \in {"idle", "returned", "raised", "stage_done", "dead"}

\* C35: when an execute call on a run has ended, by returning or by raising
\* (other than WorkflowNotFound), with no other operation on the run in
\* progress, the run's status is completed or failed and none of its stages has
\* status running; errors raised by a handler of any event, workflow_started
\* included, and errors raised inside a stage are covered.
C35_QuiescentAfterExecute ==
    [][\A c \in Calls :
        ExecuteEnds(c) =>
            /\ wfStatus'[calls'[c].wf] \in {"completed", "failed"}
            /\ \A i \in DOMAIN stages'[calls'[c].wf] :
                    stages'[calls'[c].wf][i].status # "running"]_vars

\* C36: in execute_stage the fallback query never contributes a task: when the
\* query for the stage's pending tasks returns nothing, the runnable tasks of
\* the workflow filtered to the stage are empty too, so the selected list is
\* always the result of the query for the stage's pending tasks.
C36_FallbackEmpty ==
    [][\A c \in Calls :
        execute_stage_select(c) =>
            LET w == calls[c].wf
                s == calls[c].idx
                pending == {t \in TaskIds : taskWf[t] = w /\ taskStage[t] = s
                                            /\ taskStatus[t] = "pending"}
            IN /\ calls'[c].sel = OrderByCreated(pending)
               /\ pending = {} => {t \in get_runnable_tasks(w) : taskStage[t] = s} = {}]_vars

\* execute_stage selected nothing for a stage that has a task, while the
\* fallback query returned runnable tasks of other stages.
C36_Witness ==
    \E c \in Calls :
        /\ calls[c].op = "execute_stage" /\ calls[c].pc = "stage_end"
        /\ calls[c].sel = <<>>
        /\ \E t \in ExistingTasks : taskWf[t] = calls[c].wf /\ taskStage[t] = calls[c].idx
        /\ get_runnable_tasks(calls[c].wf) # {}

\* The termination part of C37 alone: an execute in progress eventually ends.
C37_Terminates ==
    \A c \in Calls : (calls[c].op = "engine") ~> (calls[c].pc \in {"returned", "raised"})

\* C37: when every Task Executor call and every handler returns, every execute
\* call terminates after finitely many steps, with the run marked completed or
\* failed.
C37_ExecuteTerminatesMarked ==
    \A c \in Calls :
        (calls[c].op = "engine") ~>
            (/\ calls[c].pc \in {"returned", "raised"}
             /\ calls[c].wf \in Runs
             /\ wfStatus[calls[c].wf] \in {"completed", "failed"})

\* C38: pause and cancel change only the status of the named run: the statuses
\* of its stages and tasks, its dependency edges and usage records, and all
\* records of every other run are left unchanged.
C38_PauseCancelFrame ==
    [][\A w \in Runs :
        (pause(w) \/ cancel(w)) =>
            /\ \A v \in Runs \ {w} : wfStatus'[v] = wfStatus[v]
            /\ wfStatus[w] = "none" => wfStatus'[w] = "none"
            /\ wfError' = wfError /\ wfTokens' = wfTokens
            /\ \A v \in Runs : \A i \in DOMAIN stages[v] : stages'[v][i] = stages[v][i]
            /\ \A v \in Runs : Len(stages'[v]) = Len(stages[v])
            /\ \A t \in TaskIds :
                    /\ taskStatus'[t] = taskStatus[t] /\ taskWf'[t] = taskWf[t]
                    /\ taskStage'[t] = taskStage[t] /\ taskAgent'[t] = taskAgent[t]
            /\ deps' = deps
            /\ tokenUsage' = tokenUsage /\ usage' = usage]_vars

\* A run was paused or cancelled while one of its stages and one of its tasks
\* were running, and they still are.
C38_Witness ==
    \E w \in Runs :
        /\ wfStatus[w] \in {"paused", "cancelled"}
        /\ \E i \in DOMAIN stages[w] : stages[w][i].status = "running"
        /\ \E t \in TaskIds : taskWf[t] = w /\ taskStatus[t] = "running"
        /\ \E c \in Calls : calls[c].wf = w /\ calls[c].pc = "tasks"

\* C39: execute_task resolves the agent type of its task without failing: a
\* recognised selector resolves to itself, an unrecognised one starting with
\* DEV_ to DEV_PYTHON, one starting with TL_ to TL_PYTHON, any other
\* unrecognised one to PM.
C39_AgentTypeResolved ==
    (fn.name = "execute_task" /\ fn.done) =>
        LET a == fn.args[1]
            recognised ==
                \/ Len(a) = 1 /\ a[1] \in {"PM", "ARCH", "RESEARCH", "GD", "UIUX", "CQR", "SR",
                                             "QE", "E2E", "TQR", "DOE"}
                \/ Len(a) = 2 /\ a[1] \in {"TL", "DEV"} /\ a[2] \in {"PYTHON", "JAVASCRIPT"}
        IN /\ recognised => fn.ret = a
           /\ (~recognised /\ Len(a) > 1 /\ a[1] = "DEV") => fn.ret = <<"DEV", "PYTHON">>
           /\ (~recognised /\ Len(a) > 1 /\ a[1] = "TL") => fn.ret = <<"TL", "PYTHON">>
           /\ (~recognised /\ (Len(a) = 1 \/ a[1] \notin {"DEV", "TL"})) => fn.ret = <<"PM">>

\* An agent type that is no AgentType and starts with DEV_ was resolved to
\* DEV_PYTHON.
C39_Witness ==
    /\ fn.name = "execute_task" /\ fn.done
    /\ fn.args[1] = <<"DEV", "RUST">>
    /\ fn.ret = <<"DEV", "PYTHON">>

====
